---- MODULE Spec2Model ----
(***************************************************************************)
(* Model of the geospatial interaction and hierarchical aggregation        *)
(* pipeline: run_tract_site_interactions (src/etl/tract_site_interactions) *)
(* run_aggregations (src/etl/aggregations) and the orchestrator            *)
(* run_full_refresh.main.                                                  *)
(*                                                                         *)
(* Geometry is one-dimensional: a site is a point x, a tract row is a      *)
(* closed interval [lo, hi], both in the projected metric CRS.  The unit   *)
(* of length is MI_TO_M / MilesScale metres (the epsilon buffer), so that  *)
(* the buffer distance MI_TO_M * miles is the integer miles * MilesScale.  *)
(* Tract identifiers are strings of decimal digits, modelled as sequences  *)
(* of digits.  A missing value (pandas NaN) is NaN for numbers and NaNStr  *)
(* for text.                                                               *)
(***************************************************************************)
EXTENDS Integers, Sequences, FiniteSets, TLC

VARIABLES
    sites_csv,        \* the cleaned sites file (staged/cleaned_sites)
    tract_shp,        \* the rows of Tract.shp
    geocode,          \* the rows of the MasterGeocodeMap sheet
    tsi_pc,           \* position of run_tract_site_interactions
    tsi_err,          \* the exception that ended it, "" when none
    gdf_sites_m,      \* projected site layer
    gdf_tracts_m,     \* projected tract layer
    tsi_dropped,      \* tract rows dropped with the empty-geometry warning
    r_idx,            \* index into radii of the next radius pass
    pairs_all,        \* the per-radius pair tables accumulated so far
    tsi_warned,       \* radii for which "No pairs produced" was logged
    tract_site_int,   \* the combined, sorted table
    tsi_file,         \* the tract-site interaction output file
    agg_pc,           \* position of run_aggregations
    agg_err,          \* the exception that ended it, "" when none
    df_tsi,           \* df_tract_site_interactions as loaded and normalised
    df_sites,         \* df_sites as loaded
    tract_agg_all,    \* the three aggregate tables, as sets of rows
    county_agg_all,
    msa_map,
    msa_agg_all,
    agg_file,         \* the aggregations workbook
    main_pc,          \* position of run_full_refresh.main
    step,             \* index in Steps of the next call of main
    executed,         \* the steps main has called, in order
    main_err,         \* the step whose exception left main, "" when none
    geofence_dir,     \* the files of the geofence-data directory
    geo_pc,           \* position of run_geofence
    geo_err,          \* the exception that ended it, "" when none
    geo_log,          \* the warnings of read_geofence_file
    geofences_all,    \* the features loaded, empty geometries dropped
    geo_tracts,       \* the tract rows with a geometry
    geo_final,        \* the final geofence tract table
    geo_file,         \* the geofence output file
    watched,          \* the signature of the watched inputs on disk
    trig_clock,       \* the UTC clock read by compute_watch_fingerprint
    stored_fp,        \* data/state/last_run_fingerprint.json
    trig_pc,          \* position of run_if_inputs_changed.main
    current_fp,       \* current_fp of the running invocation
    trig_rc,          \* the return code of the last invocation
    trig_runs,        \* the invocations started so far
    changed_in_run,   \* a watched input changed since current_fp was computed
    ranking_files,    \* the files archive_run_outputs is given, in order
    model_files,
    arch_pc,          \* position of archive_run_outputs
    arch_err,         \* the exception that ended it, "" when none
    rankings_dir,     \* the file names in <run_dir>/rankings
    models_dir,       \* the file names in <run_dir>/models
    arch_metadata     \* run_metadata.json

tsi_vars == <<tsi_pc, tsi_err, gdf_sites_m, gdf_tracts_m, tsi_dropped, r_idx, pairs_all, tsi_warned,
              tract_site_int, tsi_file>>
geo_vars == <<geofence_dir, geo_pc, geo_err, geo_log, geofences_all, geo_tracts, geo_final,
              geo_file>>
outer_vars == <<sites_csv, tract_shp, geocode, main_pc, step, executed, main_err,
                geofence_dir, geo_pc, geo_err, geo_log, geofences_all, geo_tracts,
                geo_final, geo_file,
                watched, trig_clock, stored_fp, trig_pc, current_fp, trig_rc, trig_runs,
                changed_in_run,
                ranking_files, model_files, arch_pc, arch_err, rankings_dir, models_dir,
                arch_metadata>>
agg_vars == <<agg_pc, agg_err, df_tsi, df_sites, tract_agg_all, county_agg_all, msa_map,
              msa_agg_all, agg_file>>
trig_vars == <<watched, trig_clock, stored_fp, trig_pc, current_fp, trig_rc, trig_runs,
               changed_in_run>>
arch_vars == <<ranking_files, model_files, arch_pc, arch_err, rankings_dir, models_dir,
               arch_metadata>>
util_vars == <<trig_vars, arch_vars>>
non_geo_vars == <<sites_csv, tract_shp, geocode, main_pc, step, executed, main_err,
                  tsi_vars, agg_vars, util_vars>>
etl_vars == <<sites_csv, tract_shp, geocode, main_pc, step, executed, main_err,
              tsi_vars, agg_vars, geo_vars>>
vars == <<sites_csv, tract_shp, geocode, tsi_pc, tsi_err, gdf_sites_m, gdf_tracts_m, tsi_dropped, r_idx,
          pairs_all, tsi_warned, tract_site_int, tsi_file,
          agg_pc, agg_err, df_tsi, df_sites, tract_agg_all, county_agg_all, msa_map,
          msa_agg_all, agg_file, main_pc, step, executed, main_err,
          geofence_dir, geo_pc, geo_err, geo_log, geofences_all, geo_tracts, geo_final,
          geo_file,
          watched, trig_clock, stored_fp, trig_pc, current_fp, trig_rc, trig_runs,
          changed_in_run,
          ranking_files, model_files, arch_pc, arch_err, rankings_dir, models_dir,
          arch_metadata>>

----------------------------------------------------------------------------
(* Bounds of the model *)

MaxSites == 2
MaxTractRows == 3
\* how far ahead of the sequential order a pass may be started: the next
\* pass is one of the MaxAhead first radii still to run, or the last one
MaxAhead == 2
\* how many times the engine is called on the same layers and radius
MaxCalls == 2
\* files in the geofence-data directory
MaxFiles == 2
\* rows of an interaction table handed to the tract builder
MaxPairs == 3
\* invocations of run_if_inputs_changed
MaxInvocations == 3
\* distinct signatures the watched inputs take besides the first
MaxSignatures == 1
\* files in each list given to archive_run_outputs
MaxArchiveFiles == 2

----------------------------------------------------------------------------
(* Values *)

NaN == -1
\* a cell of a numeric column that holds text
NotNumeric == -2
NaNStr == "NaN"

\* radii = [0.0005, 1, 2, 3, 5, 25, 75, 100], each times MilesScale
MilesScale == 2000
radii == <<1, 2000, 4000, 6000, 10000, 50000, 150000, 200000>>

Range(s) == {s[i] : i \in DOMAIN s}

RECURSIVE PickRows(_, _, _)
PickRows(rows, keep, i) ==
    IF i > Len(rows) THEN <<>>
    ELSE (IF i \in keep THEN <<rows[i]>> ELSE <<>>) \o PickRows(rows, keep, i + 1)

RECURSIVE Concat(_)
Concat(frames) ==
    IF frames = <<>> THEN <<>> ELSE Head(frames) \o Concat(Tail(frames))

\* miles rounded up
round_up(u) == (u + MilesScale - 1) \div MilesScale

\* Python round(): round half to even, of miles = u / MilesScale
round(u) ==
    LET q == u \div MilesScale
        rem == u % MilesScale
    IN  IF 2 * rem < MilesScale THEN q
        ELSE IF 2 * rem > MilesScale THEN q + 1
        ELSE IF q % 2 = 0 THEN q ELSE q + 1

\* lexicographic order of two digit strings (string comparison of Geoid)
RECURSIVE StrLess(_, _)
StrLess(a, b) ==
    IF b = <<>> THEN FALSE
    ELSE IF a = <<>> THEN TRUE
    ELSE IF Head(a) # Head(b) THEN Head(a) < Head(b)
    ELSE StrLess(Tail(a), Tail(b))

----------------------------------------------------------------------------
(* Inputs: the tract layer and the cleaned sites *)

CountyA == <<0, 1, 0, 0, 1>>
CountyB == <<0, 1, 0, 0, 3>>
CountyC == <<1, 0, 0, 0, 1>>

TractRow(geoid, lo, hi, kind, empty) ==
    [GEOID |-> geoid, lo |-> lo, hi |-> hi, kind |-> kind, empty |-> empty]

\* Rows a tract shapefile may hold: tract A-020100 stored as two rows (two
\* parts), its neighbour A-020200, a tract of another county 6 miles away,
\* a tract of a third county 20 miles further, and a row without geometry.
TractCatalogue == <<
    TractRow(CountyA \o <<0, 2, 0, 1, 0, 0>>, 0, 2000, "Polygon", FALSE),
    TractRow(CountyA \o <<0, 2, 0, 1, 0, 0>>, 2000, 4000, "Polygon", FALSE),
    TractRow(CountyA \o <<0, 2, 0, 2, 0, 0>>, 4000, 8000, "MultiPolygon", FALSE),
    TractRow(CountyB \o <<0, 1, 0, 1, 0, 0>>, 20000, 30000, "Polygon", FALSE),
    TractRow(CountyC \o <<0, 0, 0, 1, 0, 0>>, 70000, 80000, "Polygon", FALSE),
    TractRow(CountyB \o <<0, 1, 0, 2, 0, 0>>, 0, 0, "None", TRUE) >>

\* the tract layers: the catalogue rows of an index set, in catalogue order
TractLayer(idx) == PickRows(TractCatalogue, idx, 1)
TractLayers ==
    {TractLayer(idx) : idx \in {s \in SUBSET DOMAIN TractCatalogue :
                                    Cardinality(s) <= MaxTractRows}}

\* Site coordinates: inside a tract on the border of its two parts, on the
\* border of two tracts, half a mile outside, 485 miles away, or missing.
SitePositions == {2000, 4000, 9000, 1000000, NaN}

SiteRow(id, x, type, seg, party, stalls) ==
    [Index_ID |-> id, x |-> x, SiteType |-> type, Segment |-> seg,
     Party |-> party, Stalls |-> stalls]

\* cleanup_sitedata numbers the rows Index_ID = 1..n and never writes an
\* empty file
GeoSiteTables ==
    UNION {{[i \in 1..n |-> SiteRow(i, xs[i], "Voltera", "AV", "Waymo", 4)] :
               xs \in [1..n -> SitePositions]} : n \in 1..MaxSites}

\* (Site-Type, Customer Segment, Interested Party) of a site
Categories == { <<"Voltera", "AV", "Waymo">>,
                <<"Voltera", "Fleet", NaNStr>> }

\* the cleaned sites of the aggregation runs: each site inside tract
\* A-020100 or inside tract B-010100, of any category, its capacity
\* 2 + Index_ID or unusable: missing for the first site, text for the next
AggSiteTables ==
    UNION {{[i \in 1..n |-> SiteRow(i, f[i][1], f[i][2][1], f[i][2][2], f[i][2][3],
                                    IF f[i][3]
                                    THEN (IF i = 1 THEN NaN ELSE NotNumeric)
                                    ELSE 2 + i)] :
               f \in [1..n -> {2000, 25000} \X Categories \X BOOLEAN]} : n \in 1..MaxSites}

AggTractLayer == TractLayer(1..4)

CountyD == <<4, 8, 2, 0, 1>>

GeocodeRow(county, mdc) == [County |-> county, MDC |-> mdc]

\* MasterGeocodeMap sheets: no county in a metropolitan division; county A
\* only; A and B in one division (A listed twice); A and B in two
\* divisions; only a county without tracts in the layer.  County A is
\* stored as the number 1001.
GeocodeTables == {
    << GeocodeRow(<<1, 0, 0, 1>>, NaNStr), GeocodeRow(CountyB, NaNStr) >>,
    << GeocodeRow(<<1, 0, 0, 1>>, "M1"), GeocodeRow(CountyB, NaNStr) >>,
    << GeocodeRow(<<1, 0, 0, 1>>, "M1"), GeocodeRow(CountyB, "M1"),
       GeocodeRow(CountyA, "M1") >>,
    << GeocodeRow(<<1, 0, 0, 1>>, "M1"), GeocodeRow(CountyB, "M2") >>,
    << GeocodeRow(CountyD, "M3") >> }

PairRow(b, geoid, id) == [Cover_Range |-> b, Geoid |-> geoid, Index_ID |-> id]

\* Rows an interaction table may hold for the tract builder: sites 1 to 3
\* with tract A-020100 (read without its leading zero) at radius 5, site 3
\* also with its neighbour, site 1 also at radius 0
BuilderRows ==
    { PairRow(5, <<1, 0, 0, 1, 0, 2, 0, 1, 0, 0>>, 1),
      PairRow(5, <<1, 0, 0, 1, 0, 2, 0, 1, 0, 0>>, 2),
      PairRow(5, <<1, 0, 0, 1, 0, 2, 0, 1, 0, 0>>, 3),
      PairRow(5, <<1, 0, 0, 1, 0, 2, 0, 2, 0, 0>>, 3),
      PairRow(0, <<1, 0, 0, 1, 0, 2, 0, 1, 0, 0>>, 1) }

RECURSIVE BuilderTables(_)
BuilderTables(n) ==
    IF n = 0 THEN {<<>>}
    ELSE BuilderTables(n - 1)
         \cup {Append(t, r) : t \in BuilderTables(n - 1), r \in BuilderRows}

\* the site metadata handed to the tract builder: up to MaxSites - 1 sites
\* of any category, capacity 2 + Index_ID
BuilderSiteTables ==
    UNION {{[i \in 1..n |-> SiteRow(i, 2000, f[i][1], f[i][2], f[i][3], 2 + i)] :
               f \in [1..n -> Categories]} : n \in 0..(MaxSites - 1)}

----------------------------------------------------------------------------
(* tract_site_interactions.py *)

\* geometry.buffer(MI_TO_M * miles) of a point: the interval around it
BufferDist(miles) == miles

\* predicate="within": the buffer wholly inside the tract
Intersects_within(tract, site, dist) ==
    /\ tract.lo <= site.x - dist
    /\ site.x + dist <= tract.hi

\* predicate="intersects": closed shapes, contact on the border included
Intersects(tract, site, dist) ==
    /\ tract.lo <= site.x + dist
    /\ site.x - dist <= tract.hi

\* gpd.sjoin(tracts, buffers, how="inner"): one row per intersecting
\* (tract row, site row), in tract order then site order
RECURSIVE sjoin(_, _, _, _, _)
sjoin(tracts, sites, dist, i, j) ==
    IF i > Len(tracts) THEN <<>>
    ELSE IF j > Len(sites) THEN sjoin(tracts, sites, dist, i + 1, 1)
    ELSE (IF Intersects(tracts[i], sites[j], dist)
          THEN << [Geoid |-> tracts[i].GEOID, Index_ID |-> sites[j].Index_ID,
                   Geometry |-> tracts[i].kind] >>
          ELSE <<>>)
         \o sjoin(tracts, sites, dist, i, j + 1)

keep_all_pairs(rows) == rows

\* .drop_duplicates(subset=["GEOID", "Index_ID"]): the first row of each key
drop_duplicates_pairs(rows) ==
    PickRows(rows,
             {i \in DOMAIN rows :
                 \A j \in 1..(i - 1) :
                     ~(rows[j].Geoid = rows[i].Geoid
                       /\ rows[j].Index_ID = rows[i].Index_ID)},
             1)

count_rows(pairs, cr, g) ==
    Cardinality({i \in DOMAIN pairs : pairs[i].Cover_Range = cr})

\* groupby(["Cover_Range", "Geoid"])["Index_ID"].nunique() of one group
nunique_sites(pairs, cr, g) ==
    Cardinality({pairs[i].Index_ID :
                    i \in {k \in DOMAIN pairs :
                              pairs[k].Cover_Range = cr /\ pairs[k].Geoid = g}})

\* the counts table: one row per (Cover_Range, Geoid) group
group_counts(pairs) ==
    {[Cover_Range |-> p.Cover_Range, Geoid |-> p.Geoid,
      Count |-> nunique_sites(pairs, p.Cover_Range, p.Geoid)] : p \in Range(pairs)}

\* pairs.merge(counts, on=["Cover_Range", "Geoid"], how="left")
merge_counts(pairs, counts) ==
    [i \in DOMAIN pairs |->
        LET hit == {c \in counts : c.Cover_Range = pairs[i].Cover_Range
                                   /\ c.Geoid = pairs[i].Geoid}
        IN  [Cover_Range |-> pairs[i].Cover_Range,
             Geoid |-> pairs[i].Geoid,
             Index_ID |-> pairs[i].Index_ID,
             Geometry |-> pairs[i].Geometry,
             Count |-> IF hit = {} THEN NaN ELSE (CHOOSE c \in hit : TRUE).Count]]

\* intersect_pairs_with_count(miles) on the projected layers
intersect_pairs_with_count(miles, sites, tracts) ==
    LET joined == drop_duplicates_pairs(sjoin(tracts, sites, BufferDist(miles), 1, 1))
        pairs == [i \in DOMAIN joined |->
                    [Cover_Range |-> round(miles),
                     Geoid |-> joined[i].Geoid,
                     Index_ID |-> joined[i].Index_ID,
                     Geometry |-> joined[i].Geometry]]
    IN  merge_counts(pairs, group_counts(pairs))

\* the combined table left in the order of its frames
unsorted(rows) == rows

\* a call of the engine that takes the sites it paired out of the site layer
Pass_Call_consuming ==
    /\ tsi_pc = "engine"
    /\ Len(pairs_all) < MaxCalls
    /\ LET pairs_r == intersect_pairs_with_count(radii[r_idx], gdf_sites_m, gdf_tracts_m)
       IN  /\ pairs_all' = Append(pairs_all, pairs_r)
           /\ gdf_sites_m' = SelectSeq(gdf_sites_m,
                                       LAMBDA t : \A i \in DOMAIN pairs_r :
                                                     pairs_r[i].Index_ID # t.Index_ID)
    /\ UNCHANGED <<tsi_pc, tsi_err, gdf_tracts_m, tsi_dropped, r_idx, tsi_warned, tract_site_int,
                   tsi_file, outer_vars, agg_vars>>

\* One call intersect_pairs_with_count(r) on the projected layers: the
\* engine buffers a copy of the site layer and returns a new frame
Pass_Call ==
    /\ tsi_pc = "engine"
    /\ Len(pairs_all) < MaxCalls
    /\ pairs_all' = Append(pairs_all,
                           intersect_pairs_with_count(radii[r_idx], gdf_sites_m,
                                                      gdf_tracts_m))
    /\ UNCHANGED <<tsi_pc, tsi_err, gdf_sites_m, gdf_tracts_m, tsi_dropped, r_idx, tsi_warned,
                   tract_site_int, tsi_file, outer_vars, agg_vars>>

\* row order of sort_values(["Cover_Range", "Geoid", "Index_ID"])
RowLess(a, b) ==
    \/ a.Cover_Range < b.Cover_Range
    \/ /\ a.Cover_Range = b.Cover_Range
       /\ \/ StrLess(a.Geoid, b.Geoid)
          \/ a.Geoid = b.Geoid /\ a.Index_ID < b.Index_ID

RECURSIVE InsertRow(_, _)
InsertRow(sorted, row) ==
    IF sorted = <<>> THEN <<row>>
    ELSE IF RowLess(row, Head(sorted)) THEN <<row>> \o sorted
    ELSE <<Head(sorted)>> \o InsertRow(Tail(sorted), row)

RECURSIVE sort_values(_)
sort_values(rows) ==
    IF rows = <<>> THEN <<>>
    ELSE InsertRow(sort_values(SubSeq(rows, 1, Len(rows) - 1)), rows[Len(rows)])

AbsentFile == [exists |-> FALSE, rows |-> <<>>]
\* what an earlier run left in staged/
StaleTSI == [exists |-> TRUE,
             rows |-> << [Cover_Range |-> 0, Geoid |-> CountyC \o <<0, 0, 0, 1, 0, 0>>,
                          Index_ID |-> 1, Geometry |-> "Polygon", Count |-> 1] >>]

\* gdf.loc[~(geometry.isna() | geometry.is_empty)]
drop_empty_geometry(layer) == SelectSeq(layer, LAMBDA t : ~t.empty)

\* the load with the tract layer taken as it is read
TSI_Load_keep_empty ==
    /\ tsi_pc = "start"
    /\ LET located == SelectSeq(sites_csv, LAMBDA s : s.x # NaN)
       IN  IF Len(located) = 0 \/ Len(tract_shp) = 0
           THEN /\ tsi_pc' = "raised"
                /\ tsi_err' = "ValueError"
                /\ UNCHANGED <<gdf_sites_m, gdf_tracts_m>>
           ELSE /\ tsi_pc' = "loop"
                /\ UNCHANGED tsi_err
                /\ gdf_sites_m' = located
                /\ gdf_tracts_m' = tract_shp
    /\ UNCHANGED <<tsi_dropped, r_idx, pairs_all, tsi_warned, tract_site_int, tsi_file,
                   outer_vars, agg_vars>>

\* Steps 0 to 3: validate and load the inputs, drop sites without
\* coordinates and tracts without geometry, project both layers
TSI_Load ==
    /\ tsi_pc = "start"
    /\ LET located == SelectSeq(sites_csv, LAMBDA s : s.x # NaN)
           tracts == drop_empty_geometry(tract_shp)
       IN  IF Len(located) = 0
           THEN /\ tsi_pc' = "raised"
                /\ tsi_err' = "ValueError"
                /\ UNCHANGED <<gdf_sites_m, gdf_tracts_m, tsi_dropped>>
           ELSE /\ tsi_dropped' = Len(tract_shp) - Len(tracts)
                /\ IF Len(tracts) = 0
                   THEN /\ tsi_pc' = "raised"
                        /\ tsi_err' = "ValueError"
                        /\ UNCHANGED <<gdf_sites_m, gdf_tracts_m>>
                   ELSE /\ tsi_pc' = "loop"
                        /\ UNCHANGED tsi_err
                        /\ gdf_sites_m' = located
                        /\ gdf_tracts_m' = tracts
    /\ UNCHANGED <<r_idx, pairs_all, tsi_warned, tract_site_int, tsi_file, outer_vars, agg_vars>>


\* An input file is missing, lacks a required column, or the tract layer
\* has no CRS: FileNotFoundError, KeyError or ValueError before any pass
TSI_InputFault ==
    /\ tsi_pc = "start"
    /\ tsi_pc' = "raised"
    /\ tsi_err' \in {"FileNotFoundError", "KeyError", "ValueError"}
    /\ UNCHANGED <<gdf_sites_m, gdf_tracts_m, tsi_dropped, r_idx, pairs_all, tsi_warned,
                   tract_site_int, tsi_file, outer_vars, agg_vars>>

\* a pass that also writes what it has so far to the output file
TSI_Pass_persisting ==
    /\ tsi_pc = "loop"
    /\ r_idx <= Len(radii)
    /\ LET pairs_r == intersect_pairs_with_count(radii[r_idx], gdf_sites_m, gdf_tracts_m)
       IN  /\ pairs_all' = Append(pairs_all, pairs_r)
           /\ tsi_warned' = IF Len(pairs_r) = 0 THEN tsi_warned \cup {r_idx}
                            ELSE tsi_warned
           /\ tsi_file' = [exists |-> TRUE, rows |-> Concat(pairs_all')]
    /\ r_idx' = r_idx + 1
    /\ UNCHANGED <<tsi_pc, tsi_err, gdf_sites_m, gdf_tracts_m, tsi_dropped, tract_site_int, outer_vars, agg_vars>>

\* One iteration of `for r in radii`
TSI_Pass ==
    /\ tsi_pc = "loop"
    /\ r_idx <= Len(radii)
    /\ LET pairs_r == intersect_pairs_with_count(radii[r_idx], gdf_sites_m, gdf_tracts_m)
       IN  /\ pairs_all' = Append(pairs_all, pairs_r)
           /\ tsi_warned' = IF Len(pairs_r) = 0 THEN tsi_warned \cup {r_idx}
                            ELSE tsi_warned
    /\ r_idx' = r_idx + 1
    /\ UNCHANGED <<tsi_pc, tsi_err, gdf_sites_m, gdf_tracts_m, tsi_dropped, tract_site_int, tsi_file,
                   outer_vars, agg_vars>>

\* the radii whose pass has run: an empty pass left its warning, another
\* one its frame, whose rows carry the rounded radius
PassesDone ==
    tsi_warned \cup
    {k \in DOMAIN radii :
        \E i \in DOMAIN pairs_all :
            pairs_all[i] # <<>> /\ pairs_all[i][1].Cover_Range = round(radii[k])}

\* the radii a pass may be started for: those with fewer than MaxAhead
\* radii still to run before them, and the last one still to run
PassesReady ==
    LET left == DOMAIN radii \ PassesDone
    IN  {k \in left : \/ Cardinality({j \in left : j < k}) < MaxAhead
                      \/ \A j \in left : j <= k}

\* One pass of the loop body with the radii taken out of order: the pass of
\* a radius that has not run yet, appended to pairs_all when it completes
TSI_PassAnyOrder ==
    /\ tsi_pc = "loop"
    /\ r_idx <= Len(radii)
    /\ \E k \in PassesReady :
          LET pairs_r == intersect_pairs_with_count(radii[k], gdf_sites_m, gdf_tracts_m)
          IN  /\ pairs_all' = Append(pairs_all, pairs_r)
              /\ tsi_warned' = IF Len(pairs_r) = 0 THEN tsi_warned \cup {k}
                               ELSE tsi_warned
    /\ r_idx' = r_idx + 1
    /\ UNCHANGED <<tsi_pc, tsi_err, gdf_sites_m, gdf_tracts_m, tsi_dropped, tract_site_int, tsi_file,
                   outer_vars, agg_vars>>

\* The buffer or the spatial join of a pass raises (a geometry engine
\* error, memory): the exception leaves run_tract_site_interactions
TSI_PassRaises ==
    /\ tsi_pc = "loop"
    /\ r_idx <= Len(radii)
    /\ tsi_pc' = "raised"
    /\ tsi_err' = "PassError"
    /\ UNCHANGED <<gdf_sites_m, gdf_tracts_m, tsi_dropped, r_idx, pairs_all, tsi_warned,
                   tract_site_int, tsi_file, outer_vars, agg_vars>>

\* the combination without its emptiness checks
TSI_Combine_unchecked ==
    /\ tsi_pc = "loop"
    /\ r_idx > Len(radii)
    /\ tsi_pc' = "save"
    /\ tract_site_int' = sort_values(Concat(pairs_all))
    /\ UNCHANGED <<tsi_err, gdf_sites_m, gdf_tracts_m, tsi_dropped, r_idx, pairs_all, tsi_warned,
                   tsi_file, outer_vars, agg_vars>>

\* After the loop: the checks on pairs_all and on the combined table,
\* then the column selection and the sort
TSI_Combine ==
    /\ tsi_pc = "loop"
    /\ r_idx > Len(radii)
    /\ IF pairs_all = <<>> \/ Len(Concat(pairs_all)) = 0
       THEN /\ tsi_pc' = "raised"
            /\ tsi_err' = "RuntimeError"
            /\ UNCHANGED tract_site_int
       ELSE /\ tsi_pc' = "save"
            /\ UNCHANGED tsi_err
            /\ tract_site_int' = sort_values(Concat(pairs_all))
    /\ UNCHANGED <<gdf_sites_m, gdf_tracts_m, tsi_dropped, r_idx, pairs_all, tsi_warned,
                   tsi_file, outer_vars, agg_vars>>

\* tract_site_int.to_csv(output_file, index=False)
TSI_Save ==
    /\ tsi_pc = "save"
    /\ tsi_file' = [exists |-> TRUE, rows |-> tract_site_int]
    /\ tsi_pc' = "done"
    /\ UNCHANGED <<tsi_err, gdf_sites_m, gdf_tracts_m, tsi_dropped, r_idx, pairs_all, tsi_warned,
                   tract_site_int, outer_vars, agg_vars>>

run_tract_site_interactions ==
    \/ TSI_Load
    \/ TSI_InputFault
    \/ TSI_Pass
    \/ TSI_PassRaises
    \/ TSI_Combine
    \/ TSI_Save

TSI_Locals ==
    /\ tsi_err = ""
    /\ gdf_sites_m = <<>>
    /\ gdf_tracts_m = <<>>
    /\ tsi_dropped = 0
    /\ r_idx = 1
    /\ pairs_all = <<>>
    /\ tsi_warned = {}
    /\ tract_site_int = <<>>

----------------------------------------------------------------------------
(* aggregations.py *)

\* a sweep that repeats the one-mile radius for the epsilon radius
BUFFERS_from_one == <<1, 1, 2, 3, 5, 25, 75, 100>>

BUFFERS == <<0, 1, 2, 3, 5, 25, 75, 100>>
TractWidth == 11
CountyWidth == 5

\* str.zfill(w): pad with zeros on the left up to width w
zfill(s, w) == IF Len(s) >= w THEN s ELSE [i \in 1..(w - Len(s)) |-> 0] \o s

\* s.str[:n]
str_prefix(s, n) == SubSeq(s, 1, IF Len(s) < n THEN Len(s) ELSE n)

\* pd.read_csv of an all-digit column, then astype(str): the column is read
\* as integers, whose text has no leading zeros
RECURSIVE read_int_as_str(_)
read_int_as_str(s) ==
    IF Len(s) > 1 /\ Head(s) = 0 THEN read_int_as_str(Tail(s)) ELSE s

\* drop_duplicates(subset): the first row of each key
drop_duplicates(rows, subset) ==
    PickRows(rows,
             {i \in DOMAIN rows :
                 \A j \in 1..(i - 1) : \E c \in subset : rows[j][c] # rows[i][c]},
             1)

\* the rows of one radius as (Tract_GeoID, Index_ID) pairs, deduplicated
buffer_pairs(buffer_miles, df) ==
    LET sel == SelectSeq(df, LAMBDA r : r.Cover_Range = buffer_miles)
        pairs == [i \in DOMAIN sel |->
                    [Tract_GeoID |-> zfill(sel[i].Geoid, TractWidth),
                     Index_ID |-> sel[i].Index_ID]]
    IN  drop_duplicates(pairs, {"Tract_GeoID", "Index_ID"})

\* pd.to_numeric(v, errors="coerce"): text that is no number becomes NaN
to_numeric(v) == IF v = NotNumeric THEN NaN ELSE v

\* fillna(0)
fillna0(v) == IF v = NaN THEN 0 ELSE v

\* the metadata of the sites that have a capacity
site_meta_with_capacity(sites) ==
    LET kept == SelectSeq(sites, LAMBDA r : to_numeric(r.Stalls) # NaN)
    IN  [i \in DOMAIN kept |->
            [Index_ID |-> kept[i].Index_ID,
             SiteType |-> kept[i].SiteType,
             Segment |-> kept[i].Segment,
             Party |-> kept[i].Party,
             Stalls |-> kept[i].Stalls]]

\* site_meta: the category columns and the capacity, coerced to a number
\* with missing values as 0
site_meta_of(sites) ==
    [i \in DOMAIN sites |->
        [Index_ID |-> sites[i].Index_ID,
         SiteType |-> sites[i].SiteType,
         Segment |-> sites[i].Segment,
         Party |-> sites[i].Party,
         Stalls |-> fillna0(to_numeric(sites[i].Stalls))]]

Enriched(region, id, type, seg, party, stalls) ==
    [Region |-> region, Index_ID |-> id, SiteType |-> type, Segment |-> seg,
     Party |-> party, Stalls |-> stalls]

\* a join without its key: every pair with every metadata row
RECURSIVE merge_site_meta_cross(_, _)
merge_site_meta_cross(pairs, meta) ==
    IF pairs = <<>> THEN <<>>
    ELSE [k \in DOMAIN meta |->
             Enriched(Head(pairs).Region, Head(pairs).Index_ID, meta[k].SiteType,
                      meta[k].Segment, meta[k].Party, meta[k].Stalls)]
         \o merge_site_meta_cross(Tail(pairs), meta)

\* the join with how="inner": a pair without metadata is dropped
merge_site_meta_inner(pairs, meta) ==
    LET kept == SelectSeq(pairs, LAMBDA p : \E k \in DOMAIN meta :
                                               meta[k].Index_ID = p.Index_ID)
    IN  [i \in DOMAIN kept |->
            LET m == meta[CHOOSE k \in DOMAIN meta : meta[k].Index_ID = kept[i].Index_ID]
            IN  Enriched(kept[i].Region, kept[i].Index_ID, m.SiteType, m.Segment,
                         m.Party, m.Stalls)]

\* pairs.merge(site_meta, on="Index_ID", how="left", validate="many_to_one"):
\* Index_ID is unique in site_meta, a pair without metadata keeps NaN
merge_site_meta(pairs, meta) ==
    [i \in DOMAIN pairs |->
        LET hit == {k \in DOMAIN meta : meta[k].Index_ID = pairs[i].Index_ID}
        IN  IF hit = {}
            THEN Enriched(pairs[i].Region, pairs[i].Index_ID, NaNStr, NaNStr, NaNStr, NaN)
            ELSE LET m == meta[CHOOSE k \in hit : TRUE]
                 IN  Enriched(pairs[i].Region, pairs[i].Index_ID, m.SiteType, m.Segment,
                              m.Party, m.Stalls)]

SameGroup(a, b) ==
    /\ a.Region = b.Region
    /\ a.SiteType = b.SiteType
    /\ a.Segment = b.Segment
    /\ a.Party = b.Party

\* ("#_Stalls_Filled", "sum") over the rows of the group of `key`, from row
\* i on; sum skips NaN
RECURSIVE sum_stalls(_, _, _)
sum_stalls(rows, key, i) ==
    IF i > Len(rows) THEN 0
    ELSE (IF SameGroup(rows[i], key) /\ rows[i].Stalls # NaN THEN rows[i].Stalls ELSE 0)
         + sum_stalls(rows, key, i + 1)

\* the aggregation with the distinct sites counted over the whole region
group_agg_region_count(buffer_miles, enriched) ==
    {[Range_Cover |-> buffer_miles,
      Region |-> key.Region,
      SiteType |-> key.SiteType,
      Segment |-> key.Segment,
      Party |-> key.Party,
      Count |-> Cardinality({enriched[i].Index_ID :
                                i \in {k \in DOMAIN enriched :
                                          enriched[k].Region = key.Region}}),
      Stalls |-> sum_stalls(enriched, key, 1)] : key \in Range(enriched)}

\* groupby([region, "Site-Type", "Customer Segment", "Interested Party"],
\* dropna=False).agg(nunique of Index_ID, sum of #_Stalls_Filled), with the
\* Range_Cover column added.  The table is kept as the set of its rows.
group_agg(buffer_miles, enriched) ==
    {[Range_Cover |-> buffer_miles,
      Region |-> key.Region,
      SiteType |-> key.SiteType,
      Segment |-> key.Segment,
      Party |-> key.Party,
      Count |-> Cardinality({enriched[i].Index_ID :
                                i \in {k \in DOMAIN enriched :
                                          SameGroup(enriched[k], key)}}),
      Stalls |-> sum_stalls(enriched, key, 1)] : key \in Range(enriched)}

\* the pairs keyed by their region column `col`
WithRegion(pairs, col) ==
    [i \in DOMAIN pairs |-> [Region |-> pairs[i][col], Index_ID |-> pairs[i].Index_ID]]

_build_tract_agg_for_buffer(buffer_miles, df, sites) ==
    LET pairs == buffer_pairs(buffer_miles, df)
    IN  group_agg(buffer_miles,
                  merge_site_meta(WithRegion(pairs, "Tract_GeoID"),
                                  site_meta_of(sites)))

\* a prefix one character too long
county_of_tract_six(tract) == str_prefix(tract, CountyWidth + 1)

\* county_pairs["Tract_GeoID"].str[:5]
county_of_tract(tract) == str_prefix(tract, CountyWidth)

\* the pairs with their County_GeoID, without the deduplication
county_pairs_all(pairs) ==
    [i \in DOMAIN pairs |->
        [Tract_GeoID |-> pairs[i].Tract_GeoID,
         Index_ID |-> pairs[i].Index_ID,
         County_GeoID |-> county_of_tract(pairs[i].Tract_GeoID)]]

\* the pairs with their County_GeoID, one row per (County_GeoID, Index_ID)
county_pairs_of(pairs) ==
    drop_duplicates(county_pairs_all(pairs), {"County_GeoID", "Index_ID"})

_build_county_agg_for_buffer(buffer_miles, df, sites) ==
    LET pairs == buffer_pairs(buffer_miles, df)
    IN  group_agg(buffer_miles,
                  merge_site_meta(WithRegion(county_pairs_of(pairs), "County_GeoID"),
                                  site_meta_of(sites)))

\* _build_msa_map: the rows with a Metropolitan Division Code, the county
\* padded to five digits, one row per (County_GeoID, MSA_Name)
_build_msa_map(df_geocodemap) ==
    LET sel == SelectSeq(df_geocodemap, LAMBDA g : g.MDC # NaNStr)
        renamed == [i \in DOMAIN sel |->
                       [County_GeoID |-> zfill(sel[i].County, CountyWidth),
                        MSA_Name |-> sel[i].MDC]]
    IN  drop_duplicates(renamed, {"County_GeoID", "MSA_Name"})

\* msa_pairs["Tract_GeoID"].str[:5], then astype(str).str.zfill(5)
msa_county_of_tract(tract) == zfill(str_prefix(tract, CountyWidth), CountyWidth)

\* msa_pairs.merge(msa_map, on="County_GeoID", how="left"): a row per
\* matching map row, a row with MSA_Name NaN when none matches
RECURSIVE merge_msa_map(_, _)
merge_msa_map(pairs, map) ==
    IF pairs = <<>> THEN <<>>
    ELSE LET p == Head(pairs)
             c == msa_county_of_tract(p.Tract_GeoID)
             hit == SelectSeq(map, LAMBDA m : m.County_GeoID = c)
         IN  (IF hit = <<>>
              THEN << [Index_ID |-> p.Index_ID, County_GeoID |-> c, MSA_Name |-> NaNStr] >>
              ELSE [k \in DOMAIN hit |->
                       [Index_ID |-> p.Index_ID, County_GeoID |-> c,
                        MSA_Name |-> hit[k].MSA_Name]])
             \o merge_msa_map(Tail(pairs), map)

\* the join with the map kept whole: unmapped pairs stay, under MSA_Name NaN
msa_pairs_keep_unmapped(pairs, map) ==
    drop_duplicates(merge_msa_map(pairs, map), {"MSA_Name", "Index_ID"})

\* the mapped pairs, a row per county of a site in the metro area
msa_pairs_per_county(pairs, map) ==
    SelectSeq(merge_msa_map(pairs, map), LAMBDA r : r.MSA_Name # NaNStr)

\* the pairs mapped to their metro areas: dropna(subset=["MSA_Name"]), then
\* one row per (MSA_Name, Index_ID)
msa_pairs_of(pairs, map) ==
    drop_duplicates(SelectSeq(merge_msa_map(pairs, map), LAMBDA r : r.MSA_Name # NaNStr),
                    {"MSA_Name", "Index_ID"})

_build_msa_agg_for_buffer(buffer_miles, df, sites, map) ==
    LET pairs == buffer_pairs(buffer_miles, df)
    IN  group_agg(buffer_miles,
                  merge_site_meta(WithRegion(msa_pairs_of(pairs, map), "MSA_Name"),
                                  site_meta_of(sites)))

\* pd.concat of the per-buffer frames
concat(frames) == UNION {frames[k] : k \in DOMAIN frames}

AbsentBook == [exists |-> FALSE, Tract |-> {}, County |-> {}, MSA |-> {}]
\* the workbook an earlier run left in staged/
StaleBook == [exists |-> TRUE,
              Tract |-> {[Range_Cover |-> 0, Region |-> CountyC \o <<0, 0, 0, 1, 0, 0>>,
                          SiteType |-> "Voltera", Segment |-> "AV", Party |-> "Waymo",
                          Count |-> 1, Stalls |-> 1]},
              County |-> {}, MSA |-> {}]

\* A required input file or column is missing: _require_file and
\* _require_columns raise before anything is computed
Agg_InputFault ==
    /\ agg_pc = "start"
    /\ agg_pc' = "raised"
    /\ agg_err' \in {"FileNotFoundError", "KeyError"}
    /\ UNCHANGED <<df_tsi, df_sites, tract_agg_all, county_agg_all, msa_map, msa_agg_all,
                   agg_file, outer_vars, tsi_vars>>

\* Load the three inputs and normalise the types
Agg_Load ==
    /\ agg_pc = "start"
    /\ IF ~tsi_file.exists
       THEN /\ agg_pc' = "raised"
            /\ agg_err' = "FileNotFoundError"
            /\ UNCHANGED <<df_tsi, df_sites>>
       ELSE /\ agg_pc' = "tract"
            /\ UNCHANGED agg_err
            /\ df_tsi' = [i \in DOMAIN tsi_file.rows |->
                             [Cover_Range |-> tsi_file.rows[i].Cover_Range,
                              Geoid |-> read_int_as_str(tsi_file.rows[i].Geoid),
                              Index_ID |-> tsi_file.rows[i].Index_ID]]
            /\ df_sites' = sites_csv
    /\ UNCHANGED <<tract_agg_all, county_agg_all, msa_map, msa_agg_all, agg_file,
                   outer_vars, tsi_vars>>

\* --- Tract aggregations ---
Agg_Tract ==
    /\ agg_pc = "tract"
    /\ tract_agg_all' =
           concat([k \in DOMAIN BUFFERS |->
                      _build_tract_agg_for_buffer(BUFFERS[k], df_tsi, df_sites)])
    /\ agg_pc' = "county"
    /\ UNCHANGED <<agg_err, df_tsi, df_sites, county_agg_all, msa_map, msa_agg_all,
                   agg_file, outer_vars, tsi_vars>>

\* --- County aggregations ---
Agg_County ==
    /\ agg_pc = "county"
    /\ county_agg_all' =
           concat([k \in DOMAIN BUFFERS |->
                      _build_county_agg_for_buffer(BUFFERS[k], df_tsi, df_sites)])
    /\ agg_pc' = "msa_map"
    /\ UNCHANGED <<agg_err, df_tsi, df_sites, tract_agg_all, msa_map, msa_agg_all,
                   agg_file, outer_vars, tsi_vars>>

\* msa_map = _build_msa_map(df_geocodemap), fatal when empty
Agg_MsaMap ==
    /\ agg_pc = "msa_map"
    /\ msa_map' = _build_msa_map(geocode)
    /\ IF Len(msa_map') = 0
       THEN agg_pc' = "raised" /\ agg_err' = "ValueError"
       ELSE agg_pc' = "msa" /\ UNCHANGED agg_err
    /\ UNCHANGED <<df_tsi, df_sites, tract_agg_all, county_agg_all, msa_agg_all,
                   agg_file, outer_vars, tsi_vars>>

\* --- MSA aggregations ---
Agg_Msa ==
    /\ agg_pc = "msa"
    /\ msa_agg_all' =
           concat([k \in DOMAIN BUFFERS |->
                      _build_msa_agg_for_buffer(BUFFERS[k], df_tsi, df_sites, msa_map)])
    /\ agg_pc' = "check"
    /\ UNCHANGED <<agg_err, df_tsi, df_sites, tract_agg_all, county_agg_all, msa_map,
                   agg_file, outer_vars, tsi_vars>>

\* the sanity checks without the one of the MSA table
Agg_Check_no_msa ==
    /\ agg_pc = "check"
    /\ IF tract_agg_all = {} \/ county_agg_all = {}
       THEN agg_pc' = "raised" /\ agg_err' = "ValueError"
       ELSE agg_pc' = "write" /\ UNCHANGED agg_err
    /\ UNCHANGED <<df_tsi, df_sites, tract_agg_all, county_agg_all, msa_map, msa_agg_all,
                   agg_file, outer_vars, tsi_vars>>

\* --- Output sanity checks ---
Agg_Check ==
    /\ agg_pc = "check"
    /\ IF tract_agg_all = {} \/ county_agg_all = {} \/ msa_agg_all = {}
       THEN agg_pc' = "raised" /\ agg_err' = "ValueError"
       ELSE agg_pc' = "write" /\ UNCHANGED agg_err
    /\ UNCHANGED <<df_tsi, df_sites, tract_agg_all, county_agg_all, msa_map, msa_agg_all,
                   agg_file, outer_vars, tsi_vars>>

\* --- Write Excel workbook (Tract / County / MSA) ---
Agg_Write ==
    /\ agg_pc = "write"
    /\ agg_file' = [exists |-> TRUE, Tract |-> tract_agg_all, County |-> county_agg_all,
                    MSA |-> msa_agg_all]
    /\ agg_pc' = "done"
    /\ UNCHANGED <<agg_err, df_tsi, df_sites, tract_agg_all, county_agg_all, msa_map,
                   msa_agg_all, outer_vars, tsi_vars>>

run_aggregations ==
    \/ Agg_InputFault
    \/ Agg_Load
    \/ Agg_Tract
    \/ Agg_County
    \/ Agg_MsaMap
    \/ Agg_Msa
    \/ Agg_Check
    \/ Agg_Write

Agg_Locals ==
    /\ agg_err = ""
    /\ df_tsi = <<>>
    /\ df_sites = <<>>
    /\ tract_agg_all = {}
    /\ county_agg_all = {}
    /\ msa_map = <<>>
    /\ msa_agg_all = {}

----------------------------------------------------------------------------
(* geofence_etl.py: file names and the party inferred from them *)

\* Text is a sequence of character codes (ASCII)
UpperCase == << "A", "B", "C", "D", "E", "F", "G", "H", "I", "J", "K", "L", "M",
                "N", "O", "P", "Q", "R", "S", "T", "U", "V", "W", "X", "Y", "Z" >>
LowerCase == << "a", "b", "c", "d", "e", "f", "g", "h", "i", "j", "k", "l", "m",
                "n", "o", "p", "q", "r", "s", "t", "u", "v", "w", "x", "y", "z" >>
DigitChars == << "0", "1", "2", "3", "4", "5", "6", "7", "8", "9" >>

Ord(ch) ==
    IF \E i \in DOMAIN UpperCase : UpperCase[i] = ch
    THEN 64 + (CHOOSE i \in DOMAIN UpperCase : UpperCase[i] = ch)
    ELSE IF \E i \in DOMAIN LowerCase : LowerCase[i] = ch
    THEN 96 + (CHOOSE i \in DOMAIN LowerCase : LowerCase[i] = ch)
    ELSE IF \E i \in DOMAIN DigitChars : DigitChars[i] = ch
    THEN 47 + (CHOOSE i \in DOMAIN DigitChars : DigitChars[i] = ch)
    ELSE IF ch = "." THEN 46
    ELSE IF ch = "-" THEN 45
    ELSE IF ch = " " THEN 32
    ELSE 95

\* the text of the characters chars
Str(chars) == [i \in DOMAIN chars |-> Ord(chars[i])]

IsUpper(c) == 65 <= c /\ c <= 90
IsAlnum(c) == IsUpper(c) \/ (97 <= c /\ c <= 122) \/ (48 <= c /\ c <= 57)

\* str.lower()
lower(s) == [i \in DOMAIN s |-> IF IsUpper(s[i]) THEN s[i] + 32 ELSE s[i]]

\* key in name
contains(name, key) ==
    \E i \in 1..(Len(name) - Len(key) + 1) : SubSeq(name, i, i + Len(key) - 1) = key

\* str.endswith
endswith(name, tail) ==
    Len(name) >= Len(tail) /\ SubSeq(name, Len(name) - Len(tail) + 1, Len(name)) = tail

\* Path.suffix: from the last dot of the name, when it is not its first
\* character
suffix(name) ==
    LET dots == {i \in DOMAIN name : name[i] = 46 /\ i > 1}
    IN  IF dots = {} THEN <<>>
        ELSE SubSeq(name, CHOOSE i \in dots : \A j \in dots : j <= i, Len(name))

KNOWN_PARTIES == << [key |-> Str(<<"u", "b", "e", "r">>),
                     party |-> Str(<<"U", "b", "e", "r">>)],
                    [key |-> Str(<<"w", "a", "y", "m", "o">>),
                     party |-> Str(<<"W", "a", "y", "m", "o">>)],
                    [key |-> Str(<<"z", "o", "o", "x">>),
                     party |-> Str(<<"Z", "o", "o", "x">>)],
                    [key |-> Str(<<"m", "o", "o", "v", "e">>),
                     party |-> Str(<<"M", "o", "o", "v", "e">>)] >>

Unknown == Str(<<"U", "n", "k", "n", "o", "w", "n">>)

\* the end of the longest run of letters and digits that starts at i
RECURSIVE run_end(_, _)
run_end(s, i) ==
    IF i < Len(s) /\ IsAlnum(s[i + 1]) THEN run_end(s, i + 1) ELSE i

\* re.findall(r"[A-Z][a-zA-Z0-9]+", s), scanning from position i
RECURSIVE findall_caps(_, _)
findall_caps(s, i) ==
    IF i >= Len(s) THEN <<>>
    ELSE IF IsUpper(s[i]) /\ IsAlnum(s[i + 1])
         THEN <<SubSeq(s, i, run_end(s, i))>> \o findall_caps(s, run_end(s, i) + 1)
         ELSE findall_caps(s, i + 1)

\* the inference with the capitalized word tried before the vendors
infer_caps_first(table_name) ==
    LET name == lower(table_name)
        hits == SelectSeq(KNOWN_PARTIES, LAMBDA kp : contains(name, kp.key))
        caps == findall_caps(table_name, 1)
    IN  IF caps # <<>> THEN caps[1]
        ELSE IF hits # <<>> THEN hits[1].party
        ELSE Unknown

\* infer_interested_party(table_name)
infer_interested_party(table_name) ==
    LET name == lower(table_name)
        hits == SelectSeq(KNOWN_PARTIES, LAMBDA kp : contains(name, kp.key))
        caps == findall_caps(table_name, 1)
    IN  IF hits # <<>> THEN hits[1].party
        ELSE IF caps # <<>> THEN caps[1]
        ELSE Unknown

----------------------------------------------------------------------------
(* geofence_etl.py: the geofence files *)

\* A feature of a KML document: its name when it has one, and the parts of
\* its geometry as intervals (none: an empty geometry; lo = hi: a point)
Feature(has_name, name, parts) == [has_name |-> has_name, Name |-> name, parts |-> parts]
Part(lo, hi) == [lo |-> lo, hi |-> hi]

\* an entry of a KMZ archive; bytes tells whether it has content
Entry(ename, bytes, features) == [ename |-> ename, bytes |-> bytes, features |-> features]

\* a file of the directory: a KML document holds features, a KMZ archive
\* holds entries, in the order of the archive; column tells whether the
\* table read from it has a geometry column
KmlFile(name, features) ==
    [name |-> name, features |-> features, entries |-> <<>>, column |-> TRUE]
KmzFile(name, entries) ==
    [name |-> name, features |-> <<>>, entries |-> entries, column |-> TRUE]
\* a document whose layer is read as a plain table
KmlTable(name, features) ==
    [name |-> name, features |-> features, entries |-> <<>>, column |-> FALSE]

DotKml == Str(<<".", "k", "m", "l">>)
DotKmz == Str(<<".", "k", "m", "z">>)
EntryA == Str(<<"a", ".", "k", "m", "l">>)
EntryB == Str(<<"b", ".", "k", "m", "l">>)
EntryDoc == Str(<<"d", "o", "c", ".", "k", "m", "l">>)
EntryIcon == Str(<<"i", "c", "o", "n", ".", "p", "n", "g">>)
ZoneOne == Str(<<"Z", "1">>)
ZoneTwo == Str(<<"Z", "2">>)

\* The files a geofence-data directory may hold
GeofenceCatalogue == {
    \* a polygon strictly inside the first row of tract A-020100
    KmlFile(Str(<<"U", "b", "e", "r", ".", "k", "m", "l">>),
            << Feature(TRUE, ZoneOne, <<Part(500, 1500)>>) >>),
    \* an archive with one document and an icon; an unnamed polygon over
    \* the border of tracts A-020100 and A-020200
    KmzFile(Str(<<"w", "a", "y", "m", "o", "P", "H", "X", ".", "k", "m", "z">>),
            << Entry(EntryIcon, TRUE, <<>>),
               Entry(EntryDoc, TRUE, << Feature(FALSE, <<>>, <<Part(3000, 5000)>>) >>) >>),
    \* an archive with two documents, b.kml stored before a.kml
    KmzFile(Str(<<"m", "y", "_", "Z", "o", "n", "e", "1", ".", "k", "m", "z">>),
            << Entry(EntryB, TRUE, << Feature(TRUE, ZoneTwo, <<Part(21000, 22000)>>) >>),
               Entry(EntryA, TRUE, << Feature(TRUE, ZoneOne, <<Part(5000, 6000)>>) >>) >>),
    \* an archive with two documents, a.kml stored before b.kml
    KmzFile(Str(<<"s", "o", "r", "t", "e", "d", ".", "k", "m", "z">>),
            << Entry(EntryA, TRUE, << Feature(TRUE, ZoneOne, <<Part(5000, 6000)>>) >>),
               Entry(EntryB, TRUE, << Feature(TRUE, ZoneTwo, <<Part(21000, 22000)>>) >>) >>),
    \* a polygon of three parts, two of them in one tract row, and a
    \* feature without geometry
    KmlFile(Str(<<"z", "o", "n", "e", ".", "k", "m", "l">>),
            << Feature(TRUE, ZoneOne,
                       <<Part(1000, 1200), Part(1500, 1800), Part(6000, 7000)>>),
               Feature(TRUE, ZoneTwo, <<>>) >>),
    \* a polygon far from every tract
    KmlFile(Str(<<"f", "a", "r", ".", "k", "m", "l">>),
            << Feature(TRUE, ZoneOne, <<Part(500000, 500100)>>) >>),
    \* a point on the border of the two rows of tract A-020100
    KmlFile(Str(<<"A", "l", "p", "h", "a", "_", "u", "b", "e", "r", ".", "K", "M", "L">>),
            << Feature(TRUE, ZoneOne, <<Part(2000, 2000)>>) >>),
    \* an archive whose document is empty
    KmzFile(Str(<<"e", "m", "p", "t", "y", ".", "k", "m", "z">>),
            << Entry(EntryDoc, FALSE, <<>>) >>),
    \* a one-letter name; a polygon strictly inside tract A-020200
    KmlFile(Str(<<"Q", ".", "k", "m", "l">>),
            << Feature(TRUE, ZoneOne, <<Part(4500, 5500)>>) >>),
    \* a document whose only feature has no geometry
    KmlFile(Str(<<"b", "l", "a", "n", "k", ".", "k", "m", "l">>),
            << Feature(TRUE, ZoneOne, <<>>) >>),
    \* a document without any feature
    KmlFile(Str(<<"v", "o", "i", "d", ".", "k", "m", "l">>), <<>>),
    \* a document with one record and no geometry column
    KmlTable(Str(<<"t", "a", "b", "l", "e", ".", "k", "m", "l">>),
             << Feature(TRUE, ZoneOne, <<>>) >>),
    \* not a geofence file
    KmlFile(Str(<<"n", "o", "t", "e", "s", ".", "t", "x", "t">>), <<>>) }

\* a logger.warning of the geofence stage: what it is about, the file, the
\* entry used and the entries found, the rows dropped
Warning(about, file, using, all, dropped) ==
    [about |-> about, file |-> file, using |-> using, all |-> all, dropped |-> dropped]

\* the warning that n rows with empty geometry are dropped, if any are
drop_warning(about, n) ==
    IF n > 0 THEN << Warning(about, <<>>, <<>>, <<>>, n) >> ELSE <<>>

\* sorted(geofence_dir.iterdir()): the files by name
RECURSIVE sorted_files(_)
sorted_files(files) ==
    IF files = {} THEN <<>>
    ELSE LET first == CHOOSE f \in files :
                          \A g \in files \ {f} : StrLess(f.name, g.name)
         IN  <<first>> \o sorted_files(files \ {first})

\* the .kml entries of an archive, in the order of z.namelist()
kml_names(f) == SelectSeq(f.entries, LAMBDA e : endswith(lower(e.ename), DotKml))

\* the rows of a document read for file f: Table_Name added, Name
\* defaulted to it
named_rows(f, features) ==
    [i \in DOMAIN features |->
        [Table_Name |-> f.name,
         Name |-> IF features[i].has_name THEN features[i].Name ELSE f.name,
         parts |-> features[i].parts]]

\* read_geofence_file without its checks of what was read
read_geofence_file_unchecked(f) ==
    LET sfx == lower(suffix(f.name))
        kml == kml_names(f)
        features == IF sfx = DotKml THEN f.features
                    ELSE IF kml # <<>> THEN kml[1].features ELSE <<>>
    IN  IF sfx \notin {DotKml, DotKmz}
        THEN [err |-> "ValueError", log |-> <<>>, rows |-> <<>>]
        ELSE [err |-> "", log |-> <<>>, rows |-> named_rows(f, features)]

\* read_geofence_file(path): the exception raised ("" when none), the
\* warning logged, the rows returned
read_geofence_file(f) ==
    LET sfx == lower(suffix(f.name))
        kml == kml_names(f)
        warning == IF sfx = DotKmz /\ Len(kml) > 1
                   THEN << Warning("multiple_kml", f.name, kml[1].ename,
                                   [i \in DOMAIN kml |-> kml[i].ename], 0) >>
                   ELSE <<>>
        features == IF sfx = DotKml THEN f.features
                    ELSE IF kml # <<>> THEN kml[1].features ELSE <<>>
    IN  IF sfx \notin {DotKml, DotKmz}
        THEN [err |-> "ValueError", log |-> <<>>, rows |-> <<>>]
        ELSE IF sfx = DotKmz /\ kml = <<>>
        THEN [err |-> "ValueError", log |-> <<>>, rows |-> <<>>]
        ELSE IF sfx = DotKmz /\ ~kml[1].bytes
        THEN [err |-> "ValueError", log |-> warning, rows |-> <<>>]
        ELSE IF Len(features) = 0
        THEN [err |-> "ValueError", log |-> warning, rows |-> <<>>]
        ELSE IF ~f.column
        THEN [err |-> "KeyError", log |-> warning, rows |-> <<>>]
        ELSE [err |-> "", log |-> warning, rows |-> named_rows(f, features)]

----------------------------------------------------------------------------
(* geofence_etl.py: run_geofence *)

\* geo["Total_Stalls_Filled"] = 37.5, in tenths of a stall
Total_Stalls_Filled == 375

\* the files of the directory with a geofence suffix, in sorted order
geofence_paths(dir) ==
    SelectSeq(sorted_files(dir), LAMBDA f : lower(suffix(f.name)) \in {DotKml, DotKmz})

\* the reads of the loop over the files, up to the first one that raises
RECURSIVE read_all(_)
read_all(paths) ==
    IF paths = <<>> THEN [err |-> "", log |-> <<>>, rows |-> <<>>]
    ELSE LET r == read_geofence_file(Head(paths))
         IN  IF r.err # "" THEN r
             ELSE LET rest == read_all(Tail(paths))
                  IN  [err |-> rest.err, log |-> r.log \o rest.log,
                       rows |-> r.rows \o rest.rows]

\* one row per geometry, with its first part only
RECURSIVE explode_first_part(_)
explode_first_part(rows) ==
    IF rows = <<>> THEN <<>>
    ELSE << [Table_Name |-> Head(rows).Table_Name, Name |-> Head(rows).Name,
             lo |-> Head(rows).parts[1].lo, hi |-> Head(rows).parts[1].hi] >>
         \o explode_first_part(Tail(rows))

\* explode(ignore_index=True): one row per part of each geometry
RECURSIVE explode(_)
explode(rows) ==
    IF rows = <<>> THEN <<>>
    ELSE [k \in DOMAIN Head(rows).parts |->
             [Table_Name |-> Head(rows).Table_Name, Name |-> Head(rows).Name,
              lo |-> Head(rows).parts[k].lo, hi |-> Head(rows).parts[k].hi]]
         \o explode(Tail(rows))

\* predicate="intersects" of a tract and a geofence part
geo_intersects(t, g) == t.lo <= g.hi /\ g.lo <= t.hi

JoinRow(geoid, g) == [Tract_GeoID |-> geoid, Name |-> g.Name, Table_Name |-> g.Table_Name]

\* the join with how="left": a tract without geofence keeps a row
RECURSIVE geo_sjoin_left(_, _, _, _)
geo_sjoin_left(tracts, geofences, i, j) ==
    IF i > Len(tracts) THEN <<>>
    ELSE IF j > Len(geofences) THEN geo_sjoin_left(tracts, geofences, i + 1, 1)
    ELSE (IF geo_intersects(tracts[i], geofences[j]) \/ j = 1
          THEN <<JoinRow(tracts[i].GEOID, geofences[j])>>
          ELSE <<>>)
         \o geo_sjoin_left(tracts, geofences, i, j + 1)

\* gpd.sjoin(tracts_for_join, geofences_for_join, how="inner",
\* predicate="intersects"), GEOID renamed Tract_GeoID
RECURSIVE geo_sjoin(_, _, _, _)
geo_sjoin(tracts, geofences, i, j) ==
    IF i > Len(tracts) THEN <<>>
    ELSE IF j > Len(geofences) THEN geo_sjoin(tracts, geofences, i + 1, 1)
    ELSE (IF geo_intersects(tracts[i], geofences[j])
          THEN <<JoinRow(tracts[i].GEOID, geofences[j])>>
          ELSE <<>>)
         \o geo_sjoin(tracts, geofences, i, j + 1)

\* a row of the final table with the tracts of its polygon as site count
geo_row_counting(j, per_table, per_polygon) ==
    [Tract_GeoID |-> j.Tract_GeoID,
     SiteType |-> "Customer Interest",
     Segment |-> "AV",
     Party |-> infer_interested_party(j.Table_Name),
     Range_Cover |-> 0,
     Count |-> per_polygon,
     Stalls |-> Total_Stalls_Filled,
     Table_Name |-> j.Table_Name,
     Name |-> j.Name,
     Tracts_Per_table |-> per_table,
     Tracts_Per_Polygon |-> per_polygon]

\* a row of the final table: the party of its file and the constant columns
geo_row(j, per_table, per_polygon) ==
    [Tract_GeoID |-> j.Tract_GeoID,
     SiteType |-> "Customer Interest",
     Segment |-> "AV",
     Party |-> infer_interested_party(j.Table_Name),
     Range_Cover |-> 0,
     Count |-> 1,
     Stalls |-> Total_Stalls_Filled,
     Table_Name |-> j.Table_Name,
     Name |-> j.Name,
     Tracts_Per_table |-> per_table,
     Tracts_Per_Polygon |-> per_polygon]

\* the final table of the joined rows, with the distinct tracts per file
\* and per (file, polygon name)
geo_build(joined) ==
    [i \in DOMAIN joined |->
        geo_row(joined[i],
                Cardinality({joined[k].Tract_GeoID :
                                k \in {m \in DOMAIN joined :
                                          joined[m].Table_Name = joined[i].Table_Name}}),
                Cardinality({joined[k].Tract_GeoID :
                                k \in {m \in DOMAIN joined :
                                          /\ joined[m].Table_Name = joined[i].Table_Name
                                          /\ joined[m].Name = joined[i].Name}}))]

AbsentGeoFile == [exists |-> FALSE, rows |-> <<>>]
\* the file an earlier run left in staged/
StaleGeoFile ==
    [exists |-> TRUE,
     rows |-> << geo_row(JoinRow(CountyC \o <<0, 0, 0, 1, 0, 0>>,
                                 [Name |-> ZoneOne, Table_Name |-> Unknown]), 1, 1) >>]

\* The directory or the tract file is missing, or the configuration lacks
\* the output file name
Geo_InputFault ==
    /\ geo_pc = "start"
    /\ geo_pc' = "raised"
    /\ geo_err' \in {"FileNotFoundError", "KeyError"}
    /\ UNCHANGED <<geofence_dir, geo_log, geofences_all, geo_tracts, geo_final, geo_file,
                   non_geo_vars>>

\* 1. Load all geofence KML/KMZ files, drop the empty geometries
Geo_Load ==
    /\ geo_pc = "start"
    /\ LET paths == geofence_paths(geofence_dir)
           read == read_all(paths)
           kept == SelectSeq(read.rows, LAMBDA g : g.parts # <<>>)
       IN  /\ geo_log' = geo_log \o read.log
                          \o (IF read.err = ""
                              THEN drop_warning("empty_geofences",
                                                Len(read.rows) - Len(kept))
                              ELSE <<>>)
           /\ IF read.err # ""
              THEN /\ geo_pc' = "raised" /\ geo_err' = read.err
                   /\ UNCHANGED geofences_all
              ELSE IF paths = <<>>
              THEN /\ geo_pc' = "raised" /\ geo_err' = "RuntimeError"
                   /\ UNCHANGED geofences_all
              ELSE IF kept = <<>>
              THEN /\ geo_pc' = "raised" /\ geo_err' = "ValueError"
                   /\ UNCHANGED geofences_all
              ELSE /\ geo_pc' = "tracts" /\ UNCHANGED geo_err
                   /\ geofences_all' = kept
    /\ UNCHANGED <<geofence_dir, geo_tracts, geo_final, geo_file, non_geo_vars>>

\* 2. Load the tract shapefile, drop the empty geometries; the layer needs
\* a CRS
Geo_Tracts ==
    /\ geo_pc = "tracts"
    /\ \E crs_defined \in BOOLEAN :
          LET tracts == drop_empty_geometry(tract_shp)
          IN  /\ geo_log' = geo_log \o drop_warning("empty_tracts",
                                                    Len(tract_shp) - Len(tracts))
              /\ IF tracts = <<>> \/ ~crs_defined
                 THEN /\ geo_pc' = "raised" /\ geo_err' = "ValueError"
                      /\ UNCHANGED geo_tracts
                 ELSE /\ geo_pc' = "join" /\ UNCHANGED geo_err
                      /\ geo_tracts' = tracts
    /\ UNCHANGED <<geofence_dir, geofences_all, geo_final, geo_file, non_geo_vars>>

\* the overlay without the check of the join
Geo_Overlay_unchecked ==
    /\ geo_pc = "join"
    /\ geo_final' = geo_build(geo_sjoin(geo_tracts, explode(geofences_all), 1, 1))
    /\ geo_pc' = "save"
    /\ UNCHANGED <<geo_err, geofence_dir, geo_log, geofences_all, geo_tracts, geo_file,
                   non_geo_vars>>

\* Explode, spatial join (fatal when it has no row), 3. build the final
\* table
Geo_Overlay ==
    /\ geo_pc = "join"
    /\ LET joined == geo_sjoin(geo_tracts, explode(geofences_all), 1, 1)
       IN  IF Len(joined) = 0
           THEN /\ geo_pc' = "raised" /\ geo_err' = "ValueError"
                /\ UNCHANGED geo_final
           ELSE /\ geo_pc' = "save" /\ UNCHANGED geo_err
                /\ geo_final' = geo_build(joined)
    /\ UNCHANGED <<geofence_dir, geo_log, geofences_all, geo_tracts, geo_file, non_geo_vars>>

\* 4. geo_final.to_excel(out_path, index=False)
Geo_Save ==
    /\ geo_pc = "save"
    /\ geo_file' = [exists |-> TRUE, rows |-> geo_final]
    /\ geo_pc' = "done"
    /\ UNCHANGED <<geo_err, geofence_dir, geo_log, geofences_all, geo_tracts, geo_final,
                   non_geo_vars>>

run_geofence ==
    \/ Geo_InputFault
    \/ Geo_Load
    \/ Geo_Tracts
    \/ Geo_Overlay
    \/ Geo_Save

Geo_Locals ==
    /\ geo_err = ""
    /\ geo_log = <<>>
    /\ geofences_all = <<>>
    /\ geo_tracts = <<>>
    /\ geo_final = <<>>

\* run_geofence is not running
Geo_Idle ==
    /\ geofence_dir = {}
    /\ geo_pc = "idle"
    /\ Geo_Locals
    /\ geo_file = AbsentGeoFile

----------------------------------------------------------------------------
(* run_full_refresh.py *)

\* the calls of main, in order; "archive_run_outputs" stands for the
\* resolution of the files to archive and the archive call
Steps == << "load_config", "run_cleanup_sitedata", "run_tract_site_interactions",
            "run_aggregations", "run_external_data_tracts",
            "run_external_data_counties", "run_external_data_msa", "run_geofence",
            "run_training", "run_exports", "archive_run_outputs" >>

ModelledSteps == {"run_tract_site_interactions", "run_aggregations"}

\* the cleaned sites a run of cleanup_sitedata may write in these runs
PipelineSiteTables == {t \in GeoSiteTables : Len(t) = 1}

\* A step other than the two modelled stages is called and returns;
\* run_cleanup_sitedata writes the cleaned sites
Main_StepReturns ==
    /\ main_pc = "call"
    /\ step <= Len(Steps)
    /\ Steps[step] \notin ModelledSteps
    /\ executed' = Append(executed, Steps[step])
    /\ step' = step + 1
    /\ IF Steps[step] = "run_cleanup_sitedata"
       THEN sites_csv' \in PipelineSiteTables
       ELSE UNCHANGED sites_csv
    /\ UNCHANGED <<geo_vars, util_vars, main_pc, main_err, tract_shp, geocode, tsi_vars, agg_vars>>

\* a raising step whose exception is logged and the run carried on
Main_StepRaises_continue ==
    /\ main_pc = "call"
    /\ step <= Len(Steps)
    /\ Steps[step] \notin ModelledSteps
    /\ executed' = Append(executed, Steps[step])
    /\ main_err' = Steps[step]
    /\ step' = step + 1
    /\ UNCHANGED <<geo_vars, util_vars, main_pc, sites_csv, tract_shp, geocode, tsi_vars, agg_vars>>

\* A step other than the two modelled stages is called and raises: main has
\* no handler, the exception leaves it
Main_StepRaises ==
    /\ main_pc = "call"
    /\ step <= Len(Steps)
    /\ Steps[step] \notin ModelledSteps
    /\ executed' = Append(executed, Steps[step])
    /\ main_pc' = "failed"
    /\ main_err' = Steps[step]
    /\ UNCHANGED <<geo_vars, util_vars, step, sites_csv, tract_shp, geocode, tsi_vars, agg_vars>>

\* run_tract_site_interactions(config) is entered
Main_CallTSI ==
    /\ main_pc = "call"
    /\ step <= Len(Steps)
    /\ Steps[step] = "run_tract_site_interactions"
    /\ executed' = Append(executed, Steps[step])
    /\ main_pc' = "in_tsi"
    /\ tsi_pc' = "start"
    /\ UNCHANGED <<geo_vars, util_vars, step, main_err, sites_csv, tract_shp, geocode, tsi_err, gdf_sites_m,
                   gdf_tracts_m, tsi_dropped, r_idx, pairs_all, tsi_warned, tract_site_int, tsi_file,
                   agg_vars>>

\* run_aggregations(config) is entered
Main_CallAgg ==
    /\ main_pc = "call"
    /\ step <= Len(Steps)
    /\ Steps[step] = "run_aggregations"
    /\ executed' = Append(executed, Steps[step])
    /\ main_pc' = "in_agg"
    /\ agg_pc' = "start"
    /\ UNCHANGED <<geo_vars, util_vars, step, main_err, sites_csv, tract_shp, geocode, agg_err, df_tsi, df_sites,
                   tract_agg_all, county_agg_all, msa_map, msa_agg_all, agg_file, tsi_vars>>

\* the stage main is in has returned
Main_StageReturns ==
    /\ \/ main_pc = "in_tsi" /\ tsi_pc = "done"
       \/ main_pc = "in_agg" /\ agg_pc = "done"
    /\ main_pc' = "call"
    /\ step' = step + 1
    /\ UNCHANGED <<geo_vars, util_vars, executed, main_err, sites_csv, tract_shp, geocode, tsi_vars, agg_vars>>

\* the stage main is in has raised: the exception leaves main
Main_StageRaises ==
    /\ \/ main_pc = "in_tsi" /\ tsi_pc = "raised"
       \/ main_pc = "in_agg" /\ agg_pc = "raised"
    /\ main_pc' = "failed"
    /\ main_err' = Steps[step]
    /\ UNCHANGED <<geo_vars, util_vars, step, executed, sites_csv, tract_shp, geocode, tsi_vars, agg_vars>>

\* "FULL REFRESH completed successfully"
Main_Success ==
    /\ main_pc = "call"
    /\ step > Len(Steps)
    /\ main_pc' = "success"
    /\ UNCHANGED <<geo_vars, util_vars, step, executed, main_err, sites_csv, tract_shp, geocode, tsi_vars,
                   agg_vars>>

main ==
    \/ Main_StepReturns
    \/ Main_StepRaises
    \/ Main_CallTSI
    \/ Main_CallAgg
    \/ Main_StageReturns
    \/ Main_StageRaises
    \/ Main_Success

\* main is not running: a stage is run on its own
Main_Off ==
    /\ main_pc = "off"
    /\ step = 1
    /\ executed = <<>>
    /\ main_err = ""

----------------------------------------------------------------------------
(* run_if_inputs_changed.py and utils/change_detection.py *)

\* the (size, mtime) signatures the watched folders and the settings file
\* may have
Signatures == 0..MaxSignatures
\* a watched folder does not exist
MissingFolder == -1

\* a fingerprint is a dict, here the set of its (key, value) items
EmptyDict == {}

\* compute_watch_fingerprint(...): the time of the computation and the
\* signatures of the inputs
compute_watch_fingerprint(now, inputs) ==
    {<<"computed_at_utc", now>>, <<"inputs", inputs>>}

\* dict(fp).pop(key, None)
pop(fp, key) == {item \in fp : item[1] # key}

\* the comparison with the time of the computation left in
fingerprints_equal_timed(fp_a, fp_b) == fp_a = fp_b

\* fingerprints_equal(fp_a, fp_b)
fingerprints_equal(fp_a, fp_b) ==
    pop(fp_a, "computed_at_utc") = pop(fp_b, "computed_at_utc")

\* A watched input is added, removed or rewritten, at any time
Env_InputChanges ==
    /\ \E sig \in (Signatures \cup {MissingFolder}) \ {watched} : watched' = sig
    /\ changed_in_run' = (changed_in_run \/ trig_pc = "refreshing")
    /\ UNCHANGED <<trig_clock, stored_fp, trig_pc, current_fp, trig_rc, trig_runs,
                   arch_vars, etl_vars>>

\* main() up to the subprocess: compute the current fingerprint, load the
\* stored one, return 0 when they are equal, else start the full refresh.
\* A missing folder makes _folder_signature raise.
Trig_Start ==
    /\ trig_pc = "idle"
    /\ trig_runs < MaxInvocations
    /\ trig_runs' = trig_runs + 1
    /\ \E now \in {trig_clock, trig_clock + 1} :
          /\ trig_clock' = now
          /\ changed_in_run' = FALSE
          /\ IF watched = MissingFolder
             THEN /\ trig_rc' = 1
                  /\ UNCHANGED <<trig_pc, current_fp>>
             ELSE LET fp == compute_watch_fingerprint(now, watched)
                  IN  /\ current_fp' = fp
                      /\ IF stored_fp # EmptyDict /\ fingerprints_equal(stored_fp, fp)
                         THEN /\ trig_rc' = 0
                              /\ UNCHANGED trig_pc
                         ELSE /\ trig_pc' = "refreshing"
                              /\ UNCHANGED trig_rc
    /\ UNCHANGED <<watched, stored_fp, arch_vars, etl_vars>>

\* the full refresh exits with a return code other than 0
Trig_RefreshFails ==
    /\ trig_pc = "refreshing"
    /\ trig_pc' = "idle"
    /\ trig_rc' = 1
    /\ UNCHANGED <<watched, trig_clock, stored_fp, current_fp, trig_runs, changed_in_run,
                   arch_vars, etl_vars>>

\* the full refresh exits with 0 and the fingerprint of the inputs as they
\* are now is saved
Trig_RefreshSucceeds_recomputed ==
    /\ trig_pc = "refreshing"
    /\ watched # MissingFolder
    /\ stored_fp' = compute_watch_fingerprint(trig_clock, watched)
    /\ trig_pc' = "idle"
    /\ trig_rc' = 0
    /\ UNCHANGED <<watched, trig_clock, current_fp, trig_runs, changed_in_run,
                   arch_vars, etl_vars>>

\* the full refresh exits with 0: save_fingerprint(fingerprint_path,
\* current_fp)
Trig_RefreshSucceeds ==
    /\ trig_pc = "refreshing"
    /\ stored_fp' = current_fp
    /\ trig_pc' = "idle"
    /\ trig_rc' = 0
    /\ UNCHANGED <<watched, trig_clock, current_fp, trig_runs, changed_in_run,
                   arch_vars, etl_vars>>

run_if_inputs_changed ==
    \/ Trig_Start
    \/ Trig_RefreshFails
    \/ Trig_RefreshSucceeds

\* run_if_inputs_changed has not been invoked and nothing is stored
Trig_Idle ==
    /\ watched = 0
    /\ trig_clock = 0
    /\ stored_fp = EmptyDict
    /\ trig_pc = "idle"
    /\ current_fp = EmptyDict
    /\ trig_rc = 0
    /\ trig_runs = 0
    /\ changed_in_run = FALSE

----------------------------------------------------------------------------
(* utils/archive_utils.py *)

\* a path given to the archive: a file, a directory, or nothing there
ArchivePath(name, kind) == [name |-> name, kind |-> kind]
ArchiveCatalogue ==
    { ArchivePath("rankings.xlsx", "file"), ArchivePath("model.pkl", "file"),
      ArchivePath("gone.xlsx", "missing"), ArchivePath("folder", "dir") }

\* the lists of files a run may hand to the archive
RECURSIVE ArchiveLists(_)
ArchiveLists(n) ==
    IF n = 0 THEN {<<>>}
    ELSE ArchiveLists(n - 1)
         \cup {Append(l, f) : l \in ArchiveLists(n - 1), f \in ArchiveCatalogue}

\* _copy_files(files, dest_dir): the loop checks a file, then copies it
RECURSIVE copy_files(_, _)
copy_files(files, dest) ==
    IF files = <<>> THEN [err |-> "", dest |-> dest, copied |-> <<>>]
    ELSE IF Head(files).kind = "missing"
    THEN [err |-> "FileNotFoundError", dest |-> dest, copied |-> <<>>]
    ELSE IF Head(files).kind = "dir"
    THEN [err |-> "IsADirectoryError", dest |-> dest, copied |-> <<>>]
    ELSE LET rest == copy_files(Tail(files), dest \cup {Head(files).name})
         IN  [err |-> rest.err, dest |-> rest.dest,
              copied |-> <<Head(files).name>> \o rest.copied]

NoMetadata == [exists |-> FALSE, rankings |-> <<>>, models |-> <<>>]

\* copied_rankings = _copy_files(ranking_files, rankings_dir)
Arch_CopyRankings ==
    /\ arch_pc = "rankings"
    /\ LET r == copy_files(ranking_files, rankings_dir)
       IN  /\ rankings_dir' = r.dest
           /\ arch_err' = r.err
           /\ arch_pc' = IF r.err # "" THEN "raised" ELSE "models"
           /\ arch_metadata' = [arch_metadata EXCEPT !.rankings = r.copied]
    /\ UNCHANGED <<ranking_files, model_files, models_dir, trig_vars, etl_vars>>

\* copied_models = _copy_files(model_files, models_dir)
Arch_CopyModels ==
    /\ arch_pc = "models"
    /\ LET r == copy_files(model_files, models_dir)
       IN  /\ models_dir' = r.dest
           /\ arch_err' = r.err
           /\ arch_pc' = IF r.err # "" THEN "raised" ELSE "metadata"
           /\ arch_metadata' = [arch_metadata EXCEPT !.models = r.copied]
    /\ UNCHANGED <<ranking_files, model_files, rankings_dir, trig_vars, etl_vars>>

\* json.dump(metadata, f, indent=2)
Arch_WriteMetadata ==
    /\ arch_pc = "metadata"
    /\ arch_metadata' = [arch_metadata EXCEPT !.exists = TRUE]
    /\ arch_pc' = "done"
    /\ UNCHANGED <<ranking_files, model_files, arch_err, rankings_dir, models_dir,
                   trig_vars, etl_vars>>

archive_run_outputs ==
    \/ Arch_CopyRankings
    \/ Arch_CopyModels
    \/ Arch_WriteMetadata

\* archive_run_outputs is not running
Arch_Idle ==
    /\ ranking_files = <<>>
    /\ model_files = <<>>
    /\ arch_pc = "idle"
    /\ arch_err = ""
    /\ rankings_dir = {}
    /\ models_dir = {}
    /\ arch_metadata = NoMetadata

Util_Idle == Trig_Idle /\ Arch_Idle

----------------------------------------------------------------------------
(* Specifications *)

\* run_tract_site_interactions called on any cleaned sites file and any
\* tract layer
InitTSI ==
    /\ sites_csv \in GeoSiteTables
    /\ tract_shp \in TractLayers
    /\ geocode = <<>>
    /\ tsi_pc = "start"
    /\ TSI_Locals
    /\ tsi_file \in {AbsentFile, StaleTSI}
    /\ agg_pc = "idle"
    /\ Agg_Locals
    /\ agg_file = AbsentBook
    /\ Main_Off
    /\ Geo_Idle
    /\ Util_Idle

SpecTSI == InitTSI /\ [][run_tract_site_interactions]_vars

\* the table a completed run_tract_site_interactions writes for these inputs
\* Projected site layers of the engine calls: sites inside a tract, on the
\* border of its two parts, on the border of two tracts, half a mile outside
PassSitePositions == {1000, 2000, 4000, 9000}

PassSiteTables ==
    UNION {{[i \in 1..n |-> SiteRow(i, xs[i], "Voltera", "AV", "Waymo", 4)] :
               xs \in [1..n -> PassSitePositions]} : n \in 1..MaxSites}

\* projected tract layers: the rows with a geometry
PassTractLayers ==
    {TractLayer(idx) : idx \in {t \in SUBSET (1..5) :
                                    t # {} /\ Cardinality(t) <= MaxTractRows}}

\* the engine called on given layers and a radius of the fixed set
InitPass ==
    /\ sites_csv = <<>>
    /\ tract_shp = <<>>
    /\ geocode = <<>>
    /\ tsi_pc = "engine"
    /\ tsi_err = ""
    /\ gdf_sites_m \in PassSiteTables
    /\ gdf_tracts_m \in PassTractLayers
    /\ tsi_dropped = 0
    /\ r_idx \in DOMAIN radii
    /\ pairs_all = <<>>
    /\ tsi_warned = {}
    /\ tract_site_int = <<>>
    /\ tsi_file = AbsentFile
    /\ agg_pc = "idle"
    /\ Agg_Locals
    /\ agg_file = AbsentBook
    /\ Main_Off
    /\ Geo_Idle
    /\ Util_Idle

SpecPass == InitPass /\ [][Pass_Call]_vars

\* the directories of the geofence runs: up to MaxFiles files
GeofenceDirs == {d \in SUBSET GeofenceCatalogue : Cardinality(d) <= MaxFiles}

\* the tract layers of the geofence runs: the four tracts rows near the
\* geofences, the same with a row without geometry, and that row alone
GeoTractLayers == {TractLayer(1..4), TractLayer({1, 2, 3, 4, 6}), TractLayer({6})}

\* run_geofence(config) on its own
InitGeo ==
    /\ sites_csv = <<>>
    /\ tract_shp \in GeoTractLayers
    /\ geocode = <<>>
    /\ tsi_pc = "idle"
    /\ TSI_Locals
    /\ tsi_file = AbsentFile
    /\ agg_pc = "idle"
    /\ Agg_Locals
    /\ agg_file = AbsentBook
    /\ Main_Off
    /\ geofence_dir \in GeofenceDirs
    /\ geo_pc = "start"
    /\ Geo_Locals
    /\ geo_file \in {AbsentGeoFile, StaleGeoFile}
    /\ Util_Idle

SpecGeo == InitGeo /\ [][run_geofence]_vars

\* the two stages that load the tract layer, each on its own
InitTractLoad == InitTSI \/ InitGeo

NextTractLoad == run_tract_site_interactions \/ run_geofence

SpecTractLoad == InitTractLoad /\ [][NextTractLoad]_vars

\* no stage of the refresh is running and no file of it exists
ETL_Off ==
    /\ sites_csv = <<>>
    /\ tract_shp = <<>>
    /\ geocode = <<>>
    /\ tsi_pc = "idle"
    /\ TSI_Locals
    /\ tsi_file = AbsentFile
    /\ agg_pc = "idle"
    /\ Agg_Locals
    /\ agg_file = AbsentBook
    /\ Main_Off
    /\ Geo_Idle

\* the scheduled invocations of run_if_inputs_changed, the watched inputs
\* changing at any time
InitTrigger ==
    /\ ETL_Off
    /\ Arch_Idle
    /\ watched \in Signatures
    /\ trig_clock = 0
    /\ stored_fp \in {EmptyDict} \cup
                     {compute_watch_fingerprint(0, sig) : sig \in Signatures}
    /\ trig_pc = "idle"
    /\ current_fp = EmptyDict
    /\ trig_rc = 0
    /\ trig_runs = 0
    /\ changed_in_run = FALSE

NextTrigger == run_if_inputs_changed \/ Env_InputChanges

SpecTrigger == InitTrigger /\ [][NextTrigger]_vars

\* archive_run_outputs on any lists of ranking and model files, the run
\* directory new
InitArchive ==
    /\ ETL_Off
    /\ Trig_Idle
    /\ ranking_files \in ArchiveLists(MaxArchiveFiles)
    /\ model_files \in ArchiveLists(MaxArchiveFiles)
    /\ arch_pc = "rankings"
    /\ arch_err = ""
    /\ rankings_dir = {}
    /\ models_dir = {}
    /\ arch_metadata = NoMetadata

SpecArchive == InitArchive /\ [][archive_run_outputs]_vars

\* the runs with the passes in any order: a site on the border of the two
\* parts of a tract and a site half a mile outside the tracts, listed in
\* either order, or the first one alone
AnyOrderSiteTables ==
    {t \in GeoSiteTables : {t[i].x : i \in DOMAIN t} \in {{2000, 9000}, {2000}}
                           /\ Len(t) <= 2 /\ t[1].x = 2000}

AnyOrderTractLayer == TractLayer(1..3)

InitAnyOrder ==
    /\ sites_csv \in AnyOrderSiteTables
    /\ tract_shp = AnyOrderTractLayer
    /\ geocode = <<>>
    /\ tsi_pc = "start"
    /\ TSI_Locals
    /\ tsi_file = StaleTSI
    /\ agg_pc = "idle"
    /\ Agg_Locals
    /\ agg_file = AbsentBook
    /\ Main_Off
    /\ Geo_Idle
    /\ Util_Idle

NextAnyOrder == TSI_Load \/ TSI_PassAnyOrder \/ TSI_Combine \/ TSI_Save

SpecAnyOrder == InitAnyOrder /\ [][NextAnyOrder]_vars

tsi_table_of(sites, tracts) ==
    LET located == SelectSeq(sites, LAMBDA s : s.x # NaN)
        layer == SelectSeq(tracts, LAMBDA t : ~t.empty)
    IN  sort_values(Concat([k \in DOMAIN radii |->
                               intersect_pairs_with_count(radii[k], located, layer)]))

\* an interaction file with the header line only
EmptyTSI == [exists |-> TRUE, rows |-> <<>>]

\* run_aggregations called after run_tract_site_interactions has written
\* its table for the cleaned sites, or on a file without rows
InitAgg ==
    /\ tract_shp = AggTractLayer
    /\ \/ /\ sites_csv \in AggSiteTables
          /\ geocode \in GeocodeTables
          /\ tsi_file = [exists |-> TRUE, rows |-> tsi_table_of(sites_csv, tract_shp)]
       \/ /\ sites_csv \in {t \in AggSiteTables : Len(t) = 1}
          /\ geocode \in GeocodeTables
          /\ tsi_file = EmptyTSI
    /\ tsi_pc = "idle"
    /\ TSI_Locals
    /\ agg_pc = "start"
    /\ Agg_Locals
    /\ agg_file = StaleBook
    /\ Main_Off
    /\ Geo_Idle
    /\ Util_Idle

SpecAgg == InitAgg /\ [][run_aggregations]_vars

\* the tract builders called on any interaction table and any site
\* metadata, pairs of sites without metadata included
InitTractBuilder ==
    /\ sites_csv = <<>>
    /\ tract_shp = <<>>
    /\ geocode = <<>>
    /\ tsi_pc = "idle"
    /\ TSI_Locals
    /\ tsi_file = AbsentFile
    /\ agg_pc = "tract"
    /\ agg_err = ""
    /\ df_tsi \in BuilderTables(MaxPairs)
    /\ df_sites \in BuilderSiteTables
    /\ tract_agg_all = {}
    /\ county_agg_all = {}
    /\ msa_map = <<>>
    /\ msa_agg_all = {}
    /\ agg_file = AbsentBook
    /\ Main_Off
    /\ Geo_Idle
    /\ Util_Idle

SpecTractBuilder == InitTractBuilder /\ [][Agg_Tract]_vars

\* the geocode sheets of the full runs: without and with metro areas
PipelineGeocode ==
    {g \in GeocodeTables : Len(g) = 3 \/ \A k \in DOMAIN g : g[k].MDC = NaNStr}

\* python run_full_refresh.py, the staged files of an earlier run present
Init ==
    /\ sites_csv = <<>>
    /\ tract_shp = AggTractLayer
    /\ geocode \in PipelineGeocode
    /\ tsi_pc = "idle"
    /\ TSI_Locals
    /\ tsi_file = StaleTSI
    /\ agg_pc = "idle"
    /\ Agg_Locals
    /\ agg_file = StaleBook
    /\ main_pc = "call"
    /\ step = 1
    /\ executed = <<>>
    /\ main_err = ""
    /\ Geo_Idle
    /\ Util_Idle

Next == main \/ run_tract_site_interactions \/ run_aggregations

Spec == Init /\ [][Next]_vars

----------------------------------------------------------------------------
(* Properties of the buffer-intersection stage *)

NoDuplicateKey(rows, withRange) ==
    \A i, j \in DOMAIN rows :
        (/\ rows[i].Geoid = rows[j].Geoid
         /\ rows[i].Index_ID = rows[j].Index_ID
         /\ (withRange => rows[i].Cover_Range = rows[j].Cover_Range)) => i = j

\* C1: every radius pass returns a pair table without two rows of the same
\* (tract ID, site ID), and the combined table, in memory and on file, has
\* no two rows of the same (coverage range, tract ID, site ID).
C1_PairsUnique ==
    /\ \A k \in DOMAIN pairs_all : NoDuplicateKey(pairs_all[k], FALSE)
    /\ NoDuplicateKey(tract_site_int, TRUE)
    /\ tsi_pc = "done" => NoDuplicateKey(tsi_file.rows, TRUE)

\* the spatial join of some pass hit one (tract ID, site ID) twice, and the
\* run saved its table
C1_Witness ==
    /\ tsi_pc = "done"
    /\ \E k \in DOMAIN pairs_all :
          Len(sjoin(gdf_tracts_m, gdf_sites_m, BufferDist(radii[k]), 1, 1))
              > Len(pairs_all[k])

DistinctSitesOfKey(rows, cr, g) ==
    {rows[i].Index_ID : i \in {k \in DOMAIN rows :
                                  rows[k].Cover_Range = cr /\ rows[k].Geoid = g}}

CountsMatch(rows) ==
    \A i \in DOMAIN rows :
        rows[i].Count = Cardinality(DistinctSitesOfKey(rows, rows[i].Cover_Range,
                                                       rows[i].Geoid))

\* C2: in the interaction table each row's distinct-site count is the number
\* of distinct site IDs among the rows of the table with the row's (coverage
\* range, tract ID); rows of one key therefore carry one count.
C2_CountIsDistinctSites ==
    /\ CountsMatch(tract_site_int)
    /\ tsi_pc = "done" => CountsMatch(tsi_file.rows)

\* a saved table in which some tract is paired with two sites at one radius
\* and another tract with one
C2_Witness ==
    /\ tsi_pc = "done"
    /\ \E i, j \in DOMAIN tsi_file.rows :
          /\ tsi_file.rows[i].Count = 2
          /\ tsi_file.rows[j].Count = 1
          /\ tsi_file.rows[i].Cover_Range = tsi_file.rows[j].Cover_Range

AllPassesEmpty == \A k \in DOMAIN pairs_all : pairs_all[k] = <<>>

\* C7: a radius pass without pairs is logged as a warning and the loop goes
\* on; the run raises its no-pairs error only after all radii, and exactly
\* when every pass was empty.
C7_ZeroPairsPolicy ==
    /\ \A k \in DOMAIN pairs_all : (pairs_all[k] = <<>>) <=> (k \in tsi_warned)
    /\ tsi_err = "RuntimeError" =>
          /\ tsi_pc = "raised"
          /\ Len(pairs_all) = Len(radii)
          /\ AllPassesEmpty
    /\ tsi_pc \in {"save", "done"} =>
          /\ Len(pairs_all) = Len(radii)
          /\ ~AllPassesEmpty
    /\ (tsi_pc = "raised" /\ r_idx > Len(radii)) => tsi_err = "RuntimeError"

\* a run that saved its table although some pass, not the last, had no pairs
C7_Witness ==
    /\ tsi_pc = "done"
    /\ tsi_warned # {}
    /\ Len(radii) \notin tsi_warned

\* C10: the output file changes only in the save step, which follows all
\* radius passes and the checks of the combined table and writes that
\* table; a step that raises leaves the file as it was.
C10_FileOnlyAfterAllPasses ==
    [][ /\ tsi_file' # tsi_file =>
              /\ tsi_pc = "save" /\ tsi_pc' = "done"
              /\ Len(pairs_all) = Len(radii)
              /\ tract_site_int # <<>>
              /\ tsi_file' = [exists |-> TRUE, rows |-> tract_site_int]
        /\ tsi_pc' = "raised" => tsi_file' = tsi_file ]_vars

\* a run aborted in the middle of the loop, with pairs accumulated, whose
\* output file is still the one of the earlier run
C10_Witness ==
    /\ tsi_pc = "raised"
    /\ tsi_err = "PassError"
    /\ Len(pairs_all) > 2
    /\ Concat(pairs_all) # <<>>
    /\ tsi_file = StaleTSI

\* the frames of the passes run one after the other in the order of radii
SequentialFrames ==
    [k \in DOMAIN radii |->
        intersect_pairs_with_count(radii[k], gdf_sites_m, gdf_tracts_m)]

\* C11: whatever the order in which the radius passes ran and were
\* accumulated, the final table and the file written are those of the
\* sequential run on the same sites and tracts.
C11_OrderIndependent ==
    /\ tsi_pc \in {"save", "done"} =>
          tract_site_int = sort_values(Concat(SequentialFrames))
    /\ tsi_pc = "done" => tsi_file.rows = sort_values(Concat(SequentialFrames))

\* a finished run whose first pass was the 100-mile one and whose last was
\* the 1-mile one
C11_Witness ==
    /\ tsi_pc = "done"
    /\ Len(pairs_all) = Len(radii)
    /\ pairs_all[1] # <<>> /\ pairs_all[1][1].Cover_Range = 100
    /\ pairs_all[Len(radii)] # <<>> /\ pairs_all[Len(radii)][1].Cover_Range = 1
    /\ Len(tsi_file.rows) > 2

C13_SiteInsideTract ==
    (/\ tsi_pc = "engine"
     /\ r_idx = 1
     /\ Len(gdf_sites_m) = 1
     /\ Len(gdf_tracts_m) = 1
     /\ gdf_tracts_m[1].lo <= gdf_sites_m[1].x
     /\ gdf_sites_m[1].x <= gdf_tracts_m[1].hi)
    => \A i \in DOMAIN pairs_all :
          /\ Len(pairs_all[i]) = 1
          /\ pairs_all[i][1].Geoid = gdf_tracts_m[1].GEOID
          /\ pairs_all[i][1].Index_ID = gdf_sites_m[1].Index_ID
          /\ pairs_all[i][1].Cover_Range = 0
          /\ pairs_all[i][1].Count = 1

\* the radius-0 call done for a site strictly inside the only tract
C13_Witness ==
    /\ tsi_pc = "engine"
    /\ r_idx = 1
    /\ Len(gdf_sites_m) = 1
    /\ Len(gdf_tracts_m) = 1
    /\ gdf_tracts_m[1].lo < gdf_sites_m[1].x
    /\ gdf_sites_m[1].x < gdf_tracts_m[1].hi
    /\ Len(pairs_all) >= 1
    /\ Len(pairs_all[1]) = 1

\* the tract rows whose border holds the point of site s
TouchedBy(s) == {t \in Range(gdf_tracts_m) : s.x = t.lo \/ s.x = t.hi}

\* C14: at radius 0 a site on the border of a tract is paired with that
\* tract, and with every tract whose border holds the point.
C14_BorderIncluded ==
    (tsi_pc = "engine" /\ r_idx = 1) =>
        \A i \in DOMAIN pairs_all :
            \A s \in Range(gdf_sites_m) :
                \A t \in TouchedBy(s) :
                    \E row \in Range(pairs_all[i]) :
                        /\ row.Geoid = t.GEOID
                        /\ row.Index_ID = s.Index_ID
                        /\ row.Cover_Range = 0

\* the radius-0 call done for a site on the border shared by two tracts,
\* paired with both
C14_Witness ==
    /\ tsi_pc = "engine"
    /\ r_idx = 1
    /\ Len(pairs_all) >= 1
    /\ \E s \in Range(gdf_sites_m) :
          /\ Cardinality({t.GEOID : t \in TouchedBy(s)}) = 2
          /\ Cardinality({row.Geoid : row \in {q \in Range(pairs_all[1]) :
                                                   q.Index_ID = s.Index_ID}}) = 2

----------------------------------------------------------------------------
(* Properties of the aggregation stage *)

\* the interaction rows as they stand in the file, tract IDs of 11 digits
FileRows(b) == {r \in Range(tsi_file.rows) : r.Cover_Range = b}

First5(geoid) == SubSeq(geoid, 1, 5)

\* the metro areas the geocode sheet gives the county of a tract
MetrosOfTract(geoid) ==
    {g.MDC : g \in {h \in Range(geocode) :
                       h.MDC # NaNStr /\ zfill(h.County, 5) = First5(geoid)}}

\* the tracts, counties and metro areas of the file rows of radius b
TractsAt(b) == {r.Geoid : r \in FileRows(b)}
CountiesAt(b) == {First5(r.Geoid) : r \in FileRows(b)}
MetrosAt(b) == UNION {MetrosOfTract(r.Geoid) : r \in FileRows(b)}

\* the sites that interact with a region at radius b
SitesOfTract(b, t) == {r.Index_ID : r \in {q \in FileRows(b) : q.Geoid = t}}
SitesOfCounty(b, c) == {r.Index_ID : r \in {q \in FileRows(b) : First5(q.Geoid) = c}}
SitesOfMetro(b, m) == {r.Index_ID : r \in {q \in FileRows(b) : m \in MetrosOfTract(q.Geoid)}}

RowsOf(table, b, region) == {r \in table : r.Range_Cover = b /\ r.Region = region}

RECURSIVE SumCount(_)
SumCount(rows) ==
    IF rows = {} THEN 0
    ELSE LET x == CHOOSE x \in rows : TRUE IN x.Count + SumCount(rows \ {x})

RadiusSet == Range(BUFFERS)

\* C3: at each level, for every (radius, region), the distinct-site counts
\* of the category rows add up to no more than the number of distinct sites
\* that interact with the region at that radius.
C3_CountSumBounded ==
    /\ \A r \in tract_agg_all :
          SumCount(RowsOf(tract_agg_all, r.Range_Cover, r.Region))
              <= Cardinality(SitesOfTract(r.Range_Cover, r.Region))
    /\ \A r \in county_agg_all :
          SumCount(RowsOf(county_agg_all, r.Range_Cover, r.Region))
              <= Cardinality(SitesOfCounty(r.Range_Cover, r.Region))
    /\ \A r \in msa_agg_all :
          SumCount(RowsOf(msa_agg_all, r.Range_Cover, r.Region))
              <= Cardinality(SitesOfMetro(r.Range_Cover, r.Region))

TwoCategoriesIn(table) ==
    \E r, q \in table :
        /\ r.Range_Cover = q.Range_Cover /\ r.Region = q.Region
        /\ r.Segment # q.Segment

\* all three tables are built and, at each level, some region has rows of
\* two categories
C3_Witness ==
    /\ agg_pc = "done"
    /\ TwoCategoriesIn(tract_agg_all)
    /\ TwoCategoriesIn(county_agg_all)
    /\ TwoCategoriesIn(msa_agg_all)

\* the category a site has in the cleaned sites
CategoryOf(id) ==
    LET hit == {k \in DOMAIN sites_csv : sites_csv[k].Index_ID = id}
    IN  IF hit = {} THEN <<NaNStr, NaNStr, NaNStr>>
        ELSE LET s == sites_csv[CHOOSE k \in hit : TRUE]
             IN  <<s.SiteType, s.Segment, s.Party>>

RowCategory(r) == <<r.SiteType, r.Segment, r.Party>>

AggregatesBuilt == agg_pc \in {"check", "write", "done"}
                   \/ (agg_pc = "raised" /\ Len(msa_map) > 0)

\* the file rows whose tract lies in a county without a metro area
UnmappedPairs == {r \in Range(tsi_file.rows) : MetrosOfTract(r.Geoid) = {}}

\* C4 as stated: metro-level rows exist only for metro areas of mapped
\* counties, and a run that loaded a pair of an unmapped county does not
\* raise.
C4_AsStated ==
    /\ \A r \in msa_agg_all : r.Region \in MetrosAt(r.Range_Cover)
    /\ (df_tsi # <<>> /\ UnmappedPairs # {}) => agg_pc # "raised"

\* C4: every metro-level row belongs to a metro area that the mapping gives
\* to the county of an interacting tract, and counts only sites interacting
\* with mapped counties of that metro area; pairs of unmapped counties add
\* no row, and a run that loaded its pairs raises exactly when none of them
\* lies in a mapped county: it does not raise while some pair is mapped.
C4_MetroOnlyMapped ==
    /\ \A r \in msa_agg_all :
          /\ r.Region \in MetrosAt(r.Range_Cover)
          /\ r.Count = Cardinality({i \in SitesOfMetro(r.Range_Cover, r.Region) :
                                       CategoryOf(i) = RowCategory(r)})
    /\ (df_tsi # <<>> /\ UnmappedPairs # Range(tsi_file.rows))
          => (agg_pc # "raised" /\ agg_err = "")
    /\ (df_tsi # <<>> /\ agg_pc \in {"write", "done"})
          => UnmappedPairs # Range(tsi_file.rows)

\* a run that wrote its workbook although a pair's county has no metro area
C4_Witness ==
    /\ agg_pc = "done"
    /\ UnmappedPairs # {}
    /\ msa_agg_all # {}

\* the capacity of a site as the aggregation reads it: missing counts as 0
CapacityOf(id) ==
    LET hit == {k \in DOMAIN sites_csv : sites_csv[k].Index_ID = id}
    IN  IF hit = {} THEN 0
        ELSE LET s == sites_csv[CHOOSE k \in hit : TRUE]
             IN  IF s.Stalls \in {NaN, NotNumeric} THEN 0 ELSE s.Stalls

RECURSIVE SumCapacity(_)
SumCapacity(ids) ==
    IF ids = {} THEN 0
    ELSE LET i == CHOOSE i \in ids : TRUE IN CapacityOf(i) + SumCapacity(ids \ {i})

\* table has, for (radius b, region, site-type ty), only rows of count 2
\* whose summed capacity is that of the sites ids, and at least one
ShowsPair(table, b, region, ty, ids) ==
    LET rows == {r \in RowsOf(table, b, region) : r.SiteType = ty}
    IN  /\ rows # {}
        /\ \A r \in rows : r.Count = 2 /\ r.Stalls = SumCapacity(ids)

\* C5 as stated: two sites of one site-type, both interacting with a tract
\* at radius 5, give count 2 and the sum of their capacities in the tract,
\* county and metro rows of that (radius 5, site-type); read with the metro
\* rows being those of the metro areas the tract's county is mapped to.
C5_AsStated ==
    (AggregatesBuilt /\ Len(sites_csv) = 2
     /\ sites_csv[1].SiteType = sites_csv[2].SiteType)
    => \A t \in TractsAt(5) :
          SitesOfTract(5, t) = {1, 2} =>
              /\ ShowsPair(tract_agg_all, 5, t, sites_csv[1].SiteType, {1, 2})
              /\ ShowsPair(county_agg_all, 5, First5(t), sites_csv[1].SiteType, {1, 2})
              /\ \A m \in MetrosOfTract(t) :
                    ShowsPair(msa_agg_all, 5, m, sites_csv[1].SiteType, {1, 2})

\* the row of table for (radius b, region, category c) is unique, has count
\* 2 and the summed capacity of the sites ids
ShowsPairOfCategory(table, b, region, c, ids) ==
    LET rows == {r \in RowsOf(table, b, region) : RowCategory(r) = c}
    IN  /\ Cardinality(rows) = 1
        /\ \A r \in rows : r.Count = 2 /\ r.Stalls = SumCapacity(ids)

SitesOfCategory(ids, c) == {i \in ids : CategoryOf(i) = c}

\* C5 amended: for every category (site-type, customer segment, sponsor),
\* when exactly two sites of that category interact with a tract at radius
\* 5, the tract row of (5, tract, category) has count 2 and the sum of their
\* capacities (a missing capacity counting 0); so has the county row when
\* they are the only sites of the category interacting with the county, and
\* so has the row of every metro area the county is mapped to when they are
\* the only ones interacting with that metro area; a tract whose county is
\* unmapped has no metro row.
C5_SameCategoryPair ==
    AggregatesBuilt =>
        \A t \in TractsAt(5) : \A c \in {CategoryOf(i) : i \in SitesOfTract(5, t)} :
            LET ids == SitesOfCategory(SitesOfTract(5, t), c)
            IN  Cardinality(ids) = 2 =>
                  /\ ShowsPairOfCategory(tract_agg_all, 5, t, c, ids)
                  /\ SitesOfCategory(SitesOfCounty(5, First5(t)), c) = ids
                        => ShowsPairOfCategory(county_agg_all, 5, First5(t), c, ids)
                  /\ \A m \in MetrosOfTract(t) :
                        SitesOfCategory(SitesOfMetro(5, m), c) = ids
                            => ShowsPairOfCategory(msa_agg_all, 5, m, c, ids)
                  /\ MetrosOfTract(t) = {} =>
                        \A r \in msa_agg_all :
                            r.Range_Cover = 5 =>
                                r.Region \in UNION {MetrosOfTract(u) : u \in TractsAt(5) \ {t}}

\* two sites of one category, with different capacities, interact at radius
\* 5 with a tract and with a second tract of its county, which is mapped to
\* a metro area; the three tables are built
C5_Witness ==
    /\ agg_pc = "done"
    /\ Len(sites_csv) >= 2
    /\ CategoryOf(1) = CategoryOf(2)
    /\ CapacityOf(1) # CapacityOf(2)
    /\ \E t, u \in TractsAt(5) :
          /\ t # u /\ First5(t) = First5(u)
          /\ {1, 2} \subseteq SitesOfTract(5, t) \cap SitesOfTract(5, u)
          /\ Cardinality(SitesOfCategory(SitesOfTract(5, t), CategoryOf(1))) = 2
          /\ MetrosOfTract(t) # {}

\* C6: the county of a pair is the first 5 characters of its 11-digit tract
\* ID, in the county path and in the metro path alike: at every radius the
\* county rows are those of the 5-character prefixes of the interacting
\* tracts, and the metro rows those of the metro areas mapped to them.
C6_CountyIsPrefix ==
    /\ \A r \in Range(tsi_file.rows) : Len(r.Geoid) = 11
    /\ agg_pc \in {"msa_map", "msa", "check", "write", "done"} =>
          \A b \in RadiusSet :
              {r.Region : r \in {q \in county_agg_all : q.Range_Cover = b}} = CountiesAt(b)
    /\ agg_pc \in {"check", "write", "done"} =>
          \A b \in RadiusSet :
              {r.Region : r \in {q \in msa_agg_all : q.Range_Cover = b}} = MetrosAt(b)

\* county and metro rows are built from tract IDs that start with a zero,
\* which the file read drops, for tracts of two counties
C6_Witness ==
    /\ agg_pc = "done"
    /\ Cardinality(CountiesAt(25)) = 2
    /\ \E r \in Range(df_tsi) : Len(r.Geoid) < 11
    /\ Cardinality(MetrosAt(25)) = 2

\* C8: the run gets past the map only with a non-empty map and past the
\* sanity checks only with three non-empty tables, and the workbook is
\* written only by a run that passed them; a raising run leaves it as it was.
C8_EmptyIsFatal ==
    /\ agg_pc \in {"msa", "check", "write", "done"} => Len(msa_map) > 0
    /\ agg_pc \in {"write", "done"} =>
          tract_agg_all # {} /\ county_agg_all # {} /\ msa_agg_all # {}
    /\ agg_pc # "done" => agg_file = StaleBook
    /\ agg_pc = "done" => /\ agg_err = ""
                          /\ agg_file = [exists |-> TRUE, Tract |-> tract_agg_all,
                                         County |-> county_agg_all, MSA |-> msa_agg_all]
    /\ agg_pc = "raised" <=> agg_err # ""

\* a run that raised on an empty metro table although the tract and county
\* tables and the map had rows
C8_Witness ==
    /\ agg_pc = "raised"
    /\ agg_err = "ValueError"
    /\ Len(msa_map) > 0
    /\ tract_agg_all # {} /\ county_agg_all # {} /\ msa_agg_all = {}

\* the sites of the metadata with the category of aggregate row r
SitesMatching(r) ==
    {i \in DOMAIN sites_csv :
        <<sites_csv[i].SiteType, sites_csv[i].Segment, sites_csv[i].Party>>
            = RowCategory(r)}

\* C15: at every level, the distinct-site count of an aggregate row is at
\* most the number of sites of the metadata with the row's site-type,
\* customer segment and sponsor.
C15_CountWithinCategory ==
    /\ \A r \in tract_agg_all : r.Count <= Cardinality(SitesMatching(r))
    /\ \A r \in county_agg_all : r.Count <= Cardinality(SitesMatching(r))
    /\ \A r \in msa_agg_all : r.Count <= Cardinality(SitesMatching(r))

\* a finished run with sites of two categories near one tract, and a metro
\* row that counts every site of its category
C15_Witness ==
    /\ agg_pc = "done"
    /\ Len(sites_csv) = 2
    /\ sites_csv[1].Segment # sites_csv[2].Segment
    /\ sites_csv[1].x = sites_csv[2].x
    /\ \E r \in msa_agg_all : r.Count = 1 /\ Cardinality(SitesMatching(r)) = 1
    /\ \E r \in tract_agg_all : r.Count = 1 /\ Cardinality(SitesMatching(r)) = 1

\* the sites with the category of row r that interact with its tract
SitesOfTractRow(r) ==
    SitesOfCategory(SitesOfTract(r.Range_Cover, r.Region), RowCategory(r))

\* C22: every tract row counts all the sites of its category that interact
\* with the tract, those without a usable capacity too, and its summed
\* capacity is the sum over these sites with a missing or non-numeric
\* capacity taken as 0.
C22_MissingCapacityIsZero ==
    \A r \in tract_agg_all :
        /\ r.Count = Cardinality(SitesOfTractRow(r))
        /\ r.Stalls = SumCapacity(SitesOfTractRow(r))

\* a finished run with a tract row of two sites, one with a capacity and
\* one whose capacity is text
C22_Witness ==
    /\ agg_pc = "done"
    /\ Len(sites_csv) = 2
    /\ sites_csv[1].Stalls \notin {NaN, NotNumeric}
    /\ sites_csv[2].Stalls = NotNumeric
    /\ \E r \in tract_agg_all : r.Count = 2 /\ r.Stalls = sites_csv[1].Stalls

\* the sites with the category of row r that interact with its county
SitesOfCountyRow(r) ==
    SitesOfCategory(SitesOfCounty(r.Range_Cover, r.Region), RowCategory(r))

\* the sites with the category of row r that interact with its metro area
SitesOfMetroRow(r) ==
    SitesOfCategory(SitesOfMetro(r.Range_Cover, r.Region), RowCategory(r))

\* C27: a county row and a metro row count each site of their category
\* that interacts with the region once, and their summed capacity has the
\* capacity of each such site once, however many tracts or counties of the
\* region the site interacts with.
C27_OncePerRegion ==
    /\ \A r \in county_agg_all :
          /\ r.Count = Cardinality(SitesOfCountyRow(r))
          /\ r.Stalls = SumCapacity(SitesOfCountyRow(r))
    /\ \A r \in msa_agg_all :
          /\ r.Count = Cardinality(SitesOfMetroRow(r))
          /\ r.Stalls = SumCapacity(SitesOfMetroRow(r))

RECURSIVE SumStalls(_)
SumStalls(rows) ==
    IF rows = {} THEN 0
    ELSE LET x == CHOOSE x \in rows : TRUE IN x.Stalls + SumStalls(rows \ {x})

\* the tract rows of the radius and category of row r in its county
TractRowsOfCounty(r) ==
    {q \in tract_agg_all : /\ q.Range_Cover = r.Range_Cover
                           /\ First5(q.Region) = r.Region
                           /\ RowCategory(q) = RowCategory(r)}

\* a finished run where one site with a capacity interacts with two tracts
\* of a county and with two counties of a metro area: the county row has
\* its capacity once, less than the sum of the tract rows
C27_Witness ==
    /\ agg_pc = "done"
    /\ \E r \in county_agg_all :
          /\ r.Count = 1
          /\ r.Stalls > 0
          /\ Cardinality(TractRowsOfCounty(r)) = 2
          /\ SumStalls(TractRowsOfCounty(r)) = 2 * r.Stalls
    /\ \E r \in msa_agg_all : \E i \in SitesOfMetroRow(r) :
          /\ CapacityOf(i) > 0
          /\ r.Stalls = SumCapacity(SitesOfMetroRow(r))
          /\ Cardinality({First5(q.Geoid) :
                             q \in {f \in FileRows(r.Range_Cover) :
                                       /\ f.Index_ID = i
                                       /\ r.Region \in MetrosOfTract(f.Geoid)}}) = 2

\* the sites paired with tract t (11 digits) at radius b in the table the
\* builder is given
PairedSites(b, t) ==
    {r.Index_ID : r \in {q \in Range(df_tsi) :
                            q.Cover_Range = b /\ zfill(q.Geoid, 11) = t}}

\* the sites without a row in the metadata
WithoutMetadata(ids) == {i \in ids : \A k \in DOMAIN df_sites : df_sites[k].Index_ID # i}

MissingCategory == <<NaNStr, NaNStr, NaNStr>>

\* C28: once the tract table is built, for every radius of the fixed set
\* and every tract, the distinct-site counts of its category rows add up to
\* the number of distinct sites paired with the tract at that radius; the
\* paired sites without metadata are counted in one row of missing
\* category with capacity 0; and no row is for a tract without pairs.
C28_NoPairLost ==
    agg_pc = "county" =>
        /\ \A b \in RadiusSet :
              \A t \in {zfill(r.Geoid, 11) : r \in Range(df_tsi)} :
                  /\ SumCount(RowsOf(tract_agg_all, b, t))
                        = Cardinality(PairedSites(b, t))
                  /\ WithoutMetadata(PairedSites(b, t)) # {} =>
                        \E r \in RowsOf(tract_agg_all, b, t) :
                            /\ RowCategory(r) = MissingCategory
                            /\ r.Count = Cardinality(WithoutMetadata(PairedSites(b, t)))
                            /\ r.Stalls = 0
        /\ \A r \in tract_agg_all :
              r.Range_Cover \in RadiusSet /\ PairedSites(r.Range_Cover, r.Region) # {}

\* a tract table built from pairs given twice, with a tract at radius 5
\* that has a site with metadata and a site without
C28_Witness ==
    /\ agg_pc = "county"
    /\ Len(df_tsi) = 3
    /\ Cardinality(Range(df_tsi)) = 2
    /\ \E t \in {r.Region : r \in tract_agg_all} :
          /\ Cardinality(PairedSites(5, t)) = 2
          /\ Cardinality(WithoutMetadata(PairedSites(5, t))) = 1
          /\ Cardinality(RowsOf(tract_agg_all, 5, t)) = 2

----------------------------------------------------------------------------
(* Properties of the orchestrator *)

IsPrefix(s, t) == Len(s) <= Len(t) /\ SubSeq(t, 1, Len(s)) = s

\* C9: an exception of a step leaves main at once: the failing step is the
\* last one called, a raised stage is never followed by a later call, a
\* failed run calls nothing more, changes no stage and no file, and never
\* reports success, which takes every step called in order and returned.
C9_ErrorHaltsRun ==
    /\ [](/\ IsPrefix(executed, Steps)
          /\ main_err # "" => (main_pc = "failed" /\ main_err = executed[Len(executed)])
          /\ main_pc = "failed" => main_err # ""
          /\ tsi_pc = "raised" => executed[Len(executed)] = "run_tract_site_interactions"
          /\ agg_pc = "raised" => executed[Len(executed)] = "run_aggregations"
          /\ main_pc = "success" =>
                (executed = Steps /\ main_err = "" /\ tsi_pc = "done" /\ agg_pc = "done"))
    /\ [][main_pc = "failed" => UNCHANGED vars]_vars

\* a run that failed in the aggregation stage, after the interaction stage
\* had written its table
C9_Witness ==
    /\ main_pc = "failed"
    /\ main_err = "run_aggregations"
    /\ tsi_pc = "done"
    /\ agg_err = "ValueError"
    /\ Len(executed) = 4

----------------------------------------------------------------------------
(* Properties of run_geofence *)

\* the geofence part p lies strictly inside the tract row t
StrictlyInside(p, t) == t.lo < p.lo /\ p.hi < t.hi

\* the run has loaded a single geofence of one part, strictly inside a row
\* of the tract layer it has loaded
SinglePolygonInside(t) ==
    /\ Len(geofences_all) = 1
    /\ Len(geofences_all[1].parts) = 1
    /\ t \in Range(geo_tracts)
    /\ StrictlyInside(geofences_all[1].parts[1], t)

\* C16: a single geofence polygon strictly inside one tract makes the run
\* succeed with exactly one output row: that tract, coverage range 0, one
\* customer site and the nominal stall capacity; the file holds that row.
C16_OneRowInsideTract ==
    \A t \in Range(geo_tracts) :
        SinglePolygonInside(t) =>
            /\ geo_pc \in {"join", "save", "done"}
            /\ geo_pc \in {"save", "done"} =>
                  /\ Len(geo_final) = 1
                  /\ geo_final[1].Tract_GeoID = t.GEOID
                  /\ geo_final[1].Range_Cover = 0
                  /\ geo_final[1].Count = 1
                  /\ geo_final[1].Stalls = Total_Stalls_Filled
            /\ geo_pc = "done" => geo_file = [exists |-> TRUE, rows |-> geo_final]

\* a finished run over one polygon inside a tract, in a layer of several
\* tracts
C16_Witness ==
    /\ geo_pc = "done"
    /\ \E t \in Range(geo_tracts) : SinglePolygonInside(t)
    /\ Len(geo_tracts) >= 4
    /\ Len(geo_file.rows) = 1

\* the archives of the directory with more than one .kml entry
MultiKmlArchives ==
    {f \in geofence_dir : lower(suffix(f.name)) = DotKmz /\ Len(kml_names(f)) > 1}

\* the .kml entry of archive f that is first in lexical order of the names
LexFirst(f) ==
    CHOOSE e \in Range(kml_names(f)) :
        \A o \in Range(kml_names(f)) : o.ename = e.ename \/ StrLess(e.ename, o.ename)

\* C17: once the files are loaded, each archive with several .kml entries
\* has a warning in the log and contributes the features of the entry that
\* is first in lexical order of the entry names.
C17_AsStated ==
    geo_pc = "tracts" =>
        \A f \in MultiKmlArchives :
            /\ \E i \in DOMAIN geo_log : geo_log[i].file = f.name
            /\ SelectSeq(geofences_all, LAMBDA g : g.Table_Name = f.name)
                   = SelectSeq(named_rows(f, LexFirst(f).features),
                               LAMBDA g : g.parts # <<>>)

\* key occurs in the text, whatever the case of the text
Occurs(text, key) ==
    \E i \in 1..Len(text) :
        /\ i + Len(key) - 1 <= Len(text)
        /\ \A k \in 1..Len(key) :
              \/ text[i + k - 1] = key[k]
              \/ IsUpper(text[i + k - 1]) /\ text[i + k - 1] + 32 = key[k]

\* the parties of the known tokens that occur in the file name
PartiesNamed(text) ==
    {kp.party : kp \in {k \in Range(KNOWN_PARTIES) : Occurs(text, k.key)}}

\* the positions of the text where a capital letter is followed by a letter
\* or a digit
WordStarts(text) ==
    {i \in 1..(Len(text) - 1) : IsUpper(text[i]) /\ IsAlnum(text[i + 1])}

\* the first capitalized word of the text: from the first such position, as
\* far as letters and digits go
FirstWord(text) ==
    LET i == CHOOSE a \in WordStarts(text) : \A b \in WordStarts(text) : a <= b
        j == CHOOSE e \in i..Len(text) :
                 /\ \A k \in (i + 1)..e : IsAlnum(text[k])
                 /\ e = Len(text) \/ ~IsAlnum(text[e + 1])
    IN  SubSeq(text, i, j)

\* the label of a row follows the order of precedence for its file name
LabelledByPrecedence(row) ==
    /\ row.Party # <<>>
    /\ IF PartiesNamed(row.Table_Name) # {}
       THEN row.Party \in PartiesNamed(row.Table_Name)
       ELSE IF WordStarts(row.Table_Name) # {}
       THEN row.Party = FirstWord(row.Table_Name)
       ELSE row.Party = Unknown

\* C18: the Interested Party of every output row is the party of a known
\* token occurring in the file name whatever its case; else the first
\* capitalized word of the file name; else "Unknown"; it is never empty.
C18_PartyPrecedence ==
    \A i \in DOMAIN geo_final : LabelledByPrecedence(geo_final[i])

\* an output with a row labelled by a token of a file name that also has a
\* capitalized word before it, or with rows of the three cases
C18_Witness ==
    /\ geo_pc = "done"
    /\ \/ \E i \in DOMAIN geo_final :
             /\ PartiesNamed(geo_final[i].Table_Name) # {}
             /\ WordStarts(geo_final[i].Table_Name) # {}
             /\ geo_final[i].Party # FirstWord(geo_final[i].Table_Name)
       \/ \E i, k \in DOMAIN geo_final :
             /\ PartiesNamed(geo_final[i].Table_Name) = {}
             /\ WordStarts(geo_final[i].Table_Name) # {}
             /\ PartiesNamed(geo_final[k].Table_Name) = {}
             /\ WordStarts(geo_final[k].Table_Name) = {}

\* no part of a loaded geofence meets a loaded tract row
NoOverlap ==
    \A t \in Range(geo_tracts) : \A g \in Range(geofences_all) : \A p \in Range(g.parts) :
        ~(t.lo <= p.hi /\ p.lo <= t.hi)

\* C19: when no geofence meets a tract, the run raises ValueError at the
\* join and the output file stays as it was before the run; a run that
\* goes on to save, and the file it writes, always has rows.
C19_EmptyJoinFatal ==
    /\ (geofences_all # <<>> /\ geo_tracts # <<>> /\ NoOverlap) =>
          /\ geo_pc \in {"join", "raised"}
          /\ geo_pc = "raised" => geo_err = "ValueError"
          /\ geo_file \in {AbsentGeoFile, StaleGeoFile}
    /\ geo_pc \in {"save", "done"} => geo_final # <<>>
    /\ geo_pc = "done" => (geo_file.exists /\ geo_file.rows # <<>>)

\* a run raised at the join, the file of an earlier run still in place
C19_Witness ==
    /\ geo_pc = "raised"
    /\ geo_err = "ValueError"
    /\ geofences_all # <<>>
    /\ geo_tracts # <<>>
    /\ NoOverlap
    /\ geo_file = StaleGeoFile

\* the constant columns of an output row
SyntheticAttributes(row) ==
    /\ row.SiteType = "Customer Interest"
    /\ row.Segment = "AV"
    /\ row.Range_Cover = 0
    /\ row.Count = 1
    /\ row.Stalls = Total_Stalls_Filled

\* C20: every row of the final table, and of the file a run has written,
\* has site type "Customer Interest", segment "AV", coverage range 0, one
\* customer site and the nominal stall capacity.
C20_SyntheticAttributes ==
    /\ \A i \in DOMAIN geo_final : SyntheticAttributes(geo_final[i])
    /\ \A i \in DOMAIN geo_file.rows : SyntheticAttributes(geo_file.rows[i])

\* a file written with rows of two geofence files, one polygon over
\* several tracts
C20_Witness ==
    /\ geo_pc = "done"
    /\ \E i, k \in DOMAIN geo_file.rows :
          /\ geo_file.rows[i].Table_Name # geo_file.rows[k].Table_Name
          /\ geo_file.rows[i].Tracts_Per_Polygon > 1

----------------------------------------------------------------------------
(* Properties of run_if_inputs_changed and of the archive *)

\* the signatures of the inputs recorded in a fingerprint
InputsOf(fp) == (CHOOSE item \in fp : item[1] = "inputs")[2]

\* the step is the start of an invocation
Invoked == trig_runs' # trig_runs

\* C21: the stored fingerprint changes only when a refresh exits with 0,
\* and then to the fingerprint of that invocation; a refresh is started
\* only when the stored fingerprint is missing or differs from the current
\* one in the inputs, so a failed refresh leaves a difference behind; an
\* invocation that finds the same inputs as stored, whatever the times of
\* computation, returns 0 without a refresh and stores nothing, and one
\* that finds nothing stored or other inputs starts the refresh.
C21_FingerprintOnSuccess ==
    /\ [](trig_pc = "refreshing" =>
             (stored_fp = EmptyDict \/ InputsOf(stored_fp) # InputsOf(current_fp)))
    /\ [][stored_fp' # stored_fp =>
             (trig_pc = "refreshing" /\ trig_rc' = 0 /\ stored_fp' = current_fp)]_vars
    /\ [][(trig_pc = "refreshing" /\ trig_pc' = "idle" /\ trig_rc' # 0) =>
             (stored_fp' = stored_fp /\ current_fp' = current_fp)]_vars
    /\ [][(Invoked /\ stored_fp # EmptyDict /\ InputsOf(stored_fp) = watched) =>
             (trig_pc' = "idle" /\ trig_rc' = 0 /\ stored_fp' = stored_fp)]_vars
    /\ [][(Invoked /\ watched # MissingFolder
                   /\ (stored_fp = EmptyDict \/ InputsOf(stored_fp) # watched)) =>
             trig_pc' = "refreshing"]_vars

\* a refresh started again after an invocation that ended with a failure,
\* the fingerprint of an earlier success still stored
C21_Witness ==
    /\ trig_pc = "refreshing"
    /\ trig_rc = 1
    /\ trig_runs >= 2
    /\ stored_fp # EmptyDict
    /\ InputsOf(current_fp) = watched

\* C30: the fingerprint of a running invocation is the one of the inputs
\* as they were before the refresh unless they changed since; a refresh
\* that exits with 0 stores that fingerprint; and after a change during
\* such a refresh that is still there, the next invocation starts a
\* refresh.
C30_ChangeDuringRefreshKept ==
    /\ [](trig_pc = "refreshing" =>
             (changed_in_run \/ InputsOf(current_fp) = watched))
    /\ [][(trig_pc = "refreshing" /\ trig_pc' = "idle" /\ trig_rc' = 0) =>
             stored_fp' = current_fp]_vars
    /\ [][(Invoked /\ changed_in_run /\ trig_rc = 0
                   /\ watched \notin {MissingFolder, InputsOf(current_fp)}) =>
             trig_pc' = "refreshing"]_vars

\* a refresh that exited with 0 while the inputs had changed: the stored
\* fingerprint is the one of the invocation and differs from the inputs
C30_Witness ==
    /\ trig_pc = "idle"
    /\ trig_rc = 0
    /\ changed_in_run
    /\ stored_fp = current_fp
    /\ stored_fp # EmptyDict
    /\ InputsOf(stored_fp) # watched

\* the directory of the call of _copy_files that raised
RaisedInto ==
    IF copy_files(ranking_files, {}).err # "" THEN rankings_dir ELSE models_dir

\* C26: when _copy_files raises FileNotFoundError for a missing source
\* file, its destination directory holds no copied file.
C26_AsStated ==
    (arch_pc = "raised" /\ arch_err = "FileNotFoundError") => RaisedInto = {}

\* the (geofence, part, tract row) triples of the loaded layers where the
\* part meets the tract row, for the geofences of a file and name and the
\* rows of a tract
Coverages(table, name, geoid) ==
    {c \in UNION {{<<gi, k, ti>> : k \in DOMAIN geofences_all[gi].parts,
                                   ti \in DOMAIN geo_tracts} :
                     gi \in DOMAIN geofences_all} :
        /\ geofences_all[c[1]].Table_Name = table
        /\ geofences_all[c[1]].Name = name
        /\ geo_tracts[c[3]].GEOID = geoid
        /\ geo_tracts[c[3]].lo <= geofences_all[c[1]].parts[c[2]].hi
        /\ geofences_all[c[1]].parts[c[2]].lo <= geo_tracts[c[3]].hi}

\* the output rows of a file, name and tract
OutputRows(table, name, geoid) ==
    {i \in DOMAIN geo_final : /\ geo_final[i].Table_Name = table
                              /\ geo_final[i].Name = name
                              /\ geo_final[i].Tract_GeoID = geoid}

\* C23: the final table has one row for each part of a geofence and each
\* row of the tract layer that the part meets, and no other row: for every
\* file, name and tract, as many rows as there are such coverages.
C23_OncePerPart ==
    geo_pc \in {"save", "done"} =>
        /\ \A g \in Range(geofences_all) : \A t \in Range(geo_tracts) :
              Cardinality(OutputRows(g.Table_Name, g.Name, t.GEOID))
                  = Cardinality(Coverages(g.Table_Name, g.Name, t.GEOID))
        /\ \A r \in Range(geo_final) :
              Coverages(r.Table_Name, r.Name, r.Tract_GeoID) # {}

\* a file written for a polygon of three parts: two rows for the tract that
\* two of its parts meet, one row for the tract of the third
C23_Witness ==
    /\ geo_pc = "done"
    /\ \E g \in Range(geofences_all) :
          /\ Len(g.parts) = 3
          /\ \E t, u \in Range(geo_tracts) :
                /\ Cardinality(OutputRows(g.Table_Name, g.Name, t.GEOID)) = 2
                /\ Cardinality(OutputRows(g.Table_Name, g.Name, u.GEOID)) = 1

----------------------------------------------------------------------------
(* Properties of the tract load of both stages *)

\* the rows of the tract shapefile with a geometry
WithGeometry == {t \in Range(tract_shp) : ~t.empty}

\* layer is the shapefile without `dropped` rows, none of its rows empty
LoadedFrom(layer, dropped) ==
    /\ Range(layer) = WithGeometry
    /\ Len(layer) + dropped = Len(tract_shp)
    /\ \A i \in DOMAIN layer : ~layer[i].empty

\* the rows the geofence stage was warned about when it loaded the tracts
GeoTractsDropped ==
    {geo_log[i].dropped : i \in {k \in DOMAIN geo_log : geo_log[k].about = "empty_tracts"}}

\* C24: in both stages the tract layer in use is the shapefile without its
\* rows of null or empty geometry, the number of dropped rows logged in a
\* warning when there are any; a stage that loaded a shapefile without any
\* row with geometry has raised ValueError with no tract layer, no
\* projected sites, no pass and no join; and a load that dropped rows raises
\* only then.
C24_EmptyTractsDropped ==
    /\ gdf_tracts_m # <<>> => LoadedFrom(gdf_tracts_m, tsi_dropped)
    /\ (tsi_pc \notin {"idle", "start", "engine"} /\ WithGeometry = {}) =>
          /\ tsi_pc = "raised"
          /\ tsi_err \in {"ValueError", "KeyError", "FileNotFoundError"}
          /\ gdf_tracts_m = <<>> /\ gdf_sites_m = <<>> /\ pairs_all = <<>>
    /\ (tsi_pc = "raised" /\ tsi_dropped > 0 /\ gdf_tracts_m = <<>>) =>
          (WithGeometry = {} /\ tsi_err = "ValueError")
    /\ geo_tracts # <<>> =>
          /\ \E n \in 0..Len(tract_shp) :
                /\ LoadedFrom(geo_tracts, n)
                /\ GeoTractsDropped = IF n = 0 THEN {} ELSE {n}
    /\ (geo_pc \notin {"idle", "start", "tracts"} /\ WithGeometry = {}) =>
          /\ geo_pc = "raised"
          /\ geo_tracts = <<>> /\ geo_final = <<>>
          /\ geofences_all # <<>> => geo_err = "ValueError"

\* the interaction stage finished on the two rows left of a shapefile with
\* a row without geometry
C24_Witness ==
    /\ tsi_pc = "done"
    /\ tsi_dropped = 1
    /\ Len(gdf_tracts_m) = 2
    /\ tsi_file.exists

----------------------------------------------------------------------------
(* Properties of read_geofence_file *)

\* the geofence files of the directory, and the features of the document
\* that is read from one of them
GeofenceFiles == {f \in geofence_dir : lower(suffix(f.name)) \in {DotKml, DotKmz}}

DocumentOf(f) ==
    IF lower(suffix(f.name)) = DotKml THEN f.features
    ELSE LET docs == kml_names(f)
         IN  IF docs = <<>> THEN <<>> ELSE docs[1].features

\* the files whose read gives no features, or a table without geometry
\* column
Unreadable == {f \in GeofenceFiles : DocumentOf(f) = <<>> \/ ~f.column}

\* C25: read_geofence_file raises ValueError for a file that yields no
\* feature and KeyError for one that yields features without a geometry
\* column, and returns no row in either case; a run over a directory with
\* such a file never gets a polygon set: it ends raised with no geofences.
C25_NoFeaturesOrNoGeometryRaises ==
    /\ \A f \in Unreadable :
          LET r == read_geofence_file(f)
          IN  /\ r.rows = <<>>
              /\ DocumentOf(f) = <<>> => r.err = "ValueError"
              /\ DocumentOf(f) # <<>> => r.err = "KeyError"
    /\ (Unreadable # {} /\ geo_pc # "start") =>
          /\ geo_pc = "raised"
          /\ geofences_all = <<>> /\ geo_final = <<>>

\* the run read an archive of two documents, warned about it, and raised
\* KeyError on the document without geometry column that follows
C25_Witness ==
    /\ geo_pc = "raised"
    /\ geo_err = "KeyError"
    /\ \E f \in Unreadable : DocumentOf(f) # <<>>
    /\ \E i \in DOMAIN geo_log : geo_log[i].about = "multiple_kml"
    /\ geofences_all = <<>>

----------------------------------------------------------------------------
(* Properties of the two stages together *)

\* the labels the buffer-intersection stage writes
Labels == {round(radii[k]) : k \in DOMAIN radii}

\* the radii of the aggregation sweep whose filter keeps the row
Sweeps(row) == {k \in DOMAIN BUFFERS : buffer_pairs(BUFFERS[k], <<row>>) # <<>>}

\* C29: the rounded radii are pairwise distinct, the epsilon radius is
\* labelled 0, and the labels are exactly 0, 1, 2, 3, 5, 25, 75, 100, the
\* radii of the aggregation sweep; every row the stage produces carries
\* one of them, every row the aggregation stage has loaded is kept by the
\* filter of exactly one radius of the sweep, and the tract table has a
\* row for its radius and tract.
C29_LabelsAreBuffers ==
    /\ \A j, k \in DOMAIN radii : round(radii[j]) = round(radii[k]) => j = k
    /\ round(radii[1]) = 0
    /\ Labels = {0, 1, 2, 3, 5, 25, 75, 100}
    /\ Labels = Range(BUFFERS)
    /\ \A p \in DOMAIN pairs_all : \A i \in DOMAIN pairs_all[p] :
          pairs_all[p][i].Cover_Range \in Labels
    /\ \A i \in DOMAIN tract_site_int : tract_site_int[i].Cover_Range \in Labels
    /\ \A i \in DOMAIN df_tsi : Cardinality(Sweeps(df_tsi[i])) = 1
    /\ agg_pc \notin {"idle", "start", "tract"} =>
          \A i \in DOMAIN df_tsi :
             \E t \in tract_agg_all :
                /\ t.Range_Cover = df_tsi[i].Cover_Range
                /\ t.Region = zfill(df_tsi[i].Geoid, TractWidth)

\* a full run in which the interaction stage wrote rows of the epsilon
\* radius and of larger radii and the aggregation stage swept them
C29_Witness ==
    /\ tsi_pc = "done"
    /\ agg_pc = "done"
    /\ {0, 1, 100} \subseteq {df_tsi[i].Cover_Range : i \in DOMAIN df_tsi}
    /\ {0, 1, 100} \subseteq {t.Range_Cover : t \in tract_agg_all}
    /\ Range(df_tsi) = {[Cover_Range |-> r.Cover_Range,
                         Geoid |-> read_int_as_str(r.Geoid),
                         Index_ID |-> r.Index_ID] : r \in Range(tract_site_int)}

====
